---- MODULE Spec2Model ----
(***************************************************************************)
(* A model of gocodewalker's FileWalker (file.go): the recursive walk of a *)
(* directory tree that loads .gitignore / .ignore files, filters files and *)
(* directories and streams File records on a bounded channel, together     *)
(* with the callers that run next to it (Terminate, the channel consumer), *)
(* a caller of GetExtension and of the allow-list check on names of its    *)
(* own, and the ParallelWalker that runs one such walk per root.           *)
(*                                                                         *)
(* Strings are sequences of one-character strings, so that the string      *)
(* functions of the code (ToLower, Contains, LastIndex, HasSuffix,         *)
(* path.Ext, filepath.Join) are computed as the code computes them.        *)
(***************************************************************************)
EXTENDS Integers, Sequences, FiniteSets, TLC

\* ------------------------------------------------------------------------
\* Bounds of the model
\* ------------------------------------------------------------------------

\* largest capacity of the channel handed to NewFileWalker (0 = unbuffered)
MaxQueueCap == 2

\* largest number of calls of Terminate made by the other goroutine
MaxTerminateCalls == 2

\* longest name handed to GetExtension, apart from the names of the tests
MaxNameLen == 4

\* longest entry of an allow-list handed to the allow-list check, apart from
\* the entries that go with the names of the tests
MaxEntryLen == 2

\* longest .gitmodules text handed to the submodule parser, in lines
MaxLines == 4

\* deepest working directory handed to FindRepositoryRoot (0 = the root)
MaxDepth == 3

\* largest number of calls of Walking made by one goroutine
MaxWalkingCalls == 1

\* ------------------------------------------------------------------------
\* Strings
\* ------------------------------------------------------------------------

UpperChars == <<"A","B","C","D","E","F","G","H","I","J","K","L","M",
                "N","O","P","Q","R","S","T","U","V","W","X","Y","Z">>

LowerChars == <<"a","b","c","d","e","f","g","h","i","j","k","l","m",
                "n","o","p","q","r","s","t","u","v","w","x","y","z">>

\* strings.ToLower on one character
LowerChar(c) ==
    IF \E i \in 1..Len(UpperChars) : UpperChars[i] = c
    THEN LowerChars[CHOOSE i \in 1..Len(UpperChars) : UpperChars[i] = c]
    ELSE c

\* strings.ToLower
ToLower(s) == [i \in 1..Len(s) |-> LowerChar(s[i])]

\* strings.Contains(s, sub)
Contains(s, sub) ==
    \E i \in 0..(Len(s) - Len(sub)) : SubSeq(s, i + 1, i + Len(sub)) = sub

\* strings.LastIndex(s, c) for a one-character c, 0-based as in Go, -1 if absent
LastIndex(s, c) ==
    IF \E i \in 1..Len(s) : s[i] = c
    THEN (CHOOSE i \in 1..Len(s) : s[i] = c /\ \A j \in (i+1)..Len(s) : s[j] # c) - 1
    ELSE -1

\* strings.HasSuffix(s, suf)
HasSuffix(s, suf) ==
    /\ Len(suf) <= Len(s)
    /\ SubSeq(s, Len(s) - Len(suf) + 1, Len(s)) = suf

\* path.Ext(p): the suffix beginning at the final dot in the final
\* slash-separated element of p, empty if there is no such dot
RECURSIVE ExtFrom(_, _)
ExtFrom(p, i) ==
    IF i < 1 \/ p[i] = "/" THEN <<>>
    ELSE IF p[i] = "." THEN SubSeq(p, i, Len(p))
    ELSE ExtFrom(p, i - 1)

PathExt(p) == ExtFrom(p, Len(p))

\* the outcome of slicing an empty string with [1:] (a run-time panic)
Panic == <<"!", "p", "a", "n", "i", "c">>

\* GetExtension that cuts at the first dot instead of the last one
GetExtensionFirstDot(name) ==
    LET lower == ToLower(name) IN
    IF ~Contains(lower, <<".">>) THEN lower
    ELSE IF LastIndex(lower, ".") = 0 THEN lower
    ELSE LET first == CHOOSE i \in 1..Len(lower) :
                         lower[i] = "." /\ \A j \in 1..(i - 1) : lower[j] # "."
         IN SubSeq(lower, first + 1, Len(lower))

\* GetExtension(name)
GetExtension(name) ==
    LET lower == ToLower(name) IN
    IF ~Contains(lower, <<".">>) THEN lower
    ELSE IF LastIndex(lower, ".") = 0 THEN lower
    ELSE IF PathExt(lower) = <<>> THEN Panic
    ELSE Tail(PathExt(lower))

\* filepath.Join(directory, name) for a clean directory and a clean name
Join(dir, name) ==
    IF dir = <<>> THEN name ELSE dir \o <<"/">> \o name

\* the last element of a path (os.DirEntry.Name of the entry at the path)
BaseName(p) ==
    LET i == LastIndex(p, "/") IN SubSeq(p, i + 2, Len(p))

\* ------------------------------------------------------------------------
\* The file system that is walked
\* ------------------------------------------------------------------------

gitignoreName == <<".", "g", "i", "t", "i", "g", "n", "o", "r", "e">>
ignoreName == <<".", "i", "g", "n", "o", "r", "e">>
aTxt == <<"a", ".", "t", "x", "t">>
bMd == <<"B", ".", "M", "D">>
tDts == <<"t", ".", "d", ".", "t", "s">>
dotEnv == <<".", "e", "n", "v">>

\* the directories of the tree
pR == <<"r">>
pD == Join(pR, <<"d">>)
pE == Join(pD, <<"e">>)
pF == Join(pE, <<"f">>)
pG == Join(pE, <<"g">>)
pX == Join(pR, <<"x">>)
pH == Join(pR, <<".", "h">>)

\* a regular file, handed to NewFileWalker in place of a directory
pQ == <<"q">>

TreeDirs == {pR, pD, pE, pF, pG, pX, pH}

\* the non-directory entries of a directory, in one listing order
TreeFiles(d) ==
    CASE d = pR -> <<gitignoreName, ignoreName, aTxt, bMd>>
      [] d = pD -> <<gitignoreName, aTxt>>
      [] d = pE -> <<gitignoreName, tDts>>
      [] d = pF -> <<gitignoreName, aTxt>>
      [] d = pG -> <<gitignoreName, ignoreName, aTxt>>
      [] d = pX -> <<ignoreName, aTxt, dotEnv>>
      [] d = pH -> <<aTxt>>
      [] OTHER -> <<>>

\* the directory entries of a directory, in one listing order
TreeSubDirs(d) ==
    CASE d = pR -> << <<"d">>, <<"x">>, <<".", "h">> >>
      [] d = pD -> << <<"e">> >>
      [] d = pE -> << <<"f">>, <<"g">> >>
      [] OTHER -> <<>>

Reverse(s) == [i \in 1..Len(s) |-> s[Len(s) + 1 - i]]

\* os.File.ReadDir(-1) returns the entries in directory order, which is not
\* specified: the listing is taken in one of two opposite orders
Listing(s, order) == IF order = "fwd" THEN s ELSE Reverse(s)

\* the paths of the ignore files of the tree
RECURSIVE SeqToSet(_)
SeqToSet(s) == IF s = <<>> THEN {} ELSE {Head(s)} \cup SeqToSet(Tail(s))

IgnoreFilePaths ==
    { Join(d, n) : d \in TreeDirs, n \in {gitignoreName, ignoreName} }
      \cap UNION { { Join(d, n) : n \in SeqToSet(TreeFiles(d)) } : d \in TreeDirs }

AllFilePaths ==
    UNION { { Join(d, n) : n \in SeqToSet(TreeFiles(d)) } : d \in TreeDirs }

\* ------------------------------------------------------------------------
\* The pattern matcher (go-gitignore), an external collaborator: a pattern
\* set is compiled from the text of one ignore file and the directory that
\* holds it.  The text is a sequence of patterns; a pattern names an entry
\* and is negated ("!name") or not.  The last matching pattern of a set
\* decides.
\* ------------------------------------------------------------------------

Pat(name, negated) == [pat |-> name, neg |-> negated]

\* gitignore.New(reader, base, errors)
NewGitIgnore(text, base, kind) == [base |-> base, kind |-> kind, rules |-> text]

\* the position of the pattern of the set that matches path (0: no match)
MatchIndex(set, path) ==
    LET hits == { i \in 1..Len(set.rules) :
                     /\ set.rules[i].pat = BaseName(path)
                     /\ Len(path) > Len(set.base)
                     /\ SubSeq(path, 1, Len(set.base)) = set.base }
    IN IF hits = {} THEN 0 ELSE CHOOSE i \in hits : \A j \in hits : j <= i

\* GitIgnore.Match(path) != nil
Match(set, path) == MatchIndex(set, path) # 0

\* GitIgnore.Ignore(path)
Ignore(set, path) ==
    IF MatchIndex(set, path) = 0 THEN FALSE
    ELSE ~set.rules[MatchIndex(set, path)].neg

\* hidden.go, IsHidden(entry, directory): the name starts with a dot
IsHidden(name) == Len(name) > 0 /\ name[1] = "."

\* ------------------------------------------------------------------------
\* State
\* ------------------------------------------------------------------------

VARIABLES
    \* FileWalker fields
    walkMutex,              \* "free", or the goroutine that holds the lock
    terminateWalking,
    isWalking,
    directory,
    fileListQueue,          \* the records buffered in the channel
    LocationExcludePattern,
    PathExclude,
    IgnoreIgnoreFile,
    IgnoreGitIgnore,
    IncludeHidden,
    AllowListExtensions,
    ExcludeListExtensions,
    \* the channel
    queueCap,               \* its capacity
    closeCount,             \* how many times close() ran on it
    \* the goroutine that runs Start
    pc,                     \* its position in Start
    stack,                  \* the frames of walkDirectoryRecursive, innermost last
    err,                    \* the value returned by the frame that returned last
    startResult,            \* what Start returned
    arrays,                 \* the backing arrays of the gitignores / ignores slices
    \* the goroutine that calls Terminate
    tpc,
    terminateCalls,         \* the calls of Terminate made so far
    terminateBudget,        \* the calls of Terminate this goroutine makes
    \* the consumer of the channel
    received,
    consumerDone,
    \* the environment
    fsys,                   \* text of the ignore files, listing order, failing paths
    \* history
    sent,                   \* every record sent on the channel, in order
    decided,                \* the entry filtered last, with the pattern sets consulted
    readLog,                \* the paths os.ReadFile was called with
    listed,                 \* the directories whose entries were listed
    terminateAt,            \* the positions of Start at which Terminate was called
    terminatedAtStart,      \* Terminate had returned when Start was called
    handlerCalls,           \* the errors the error handler was called with, in order
    opened,                 \* the directories os.Open was called with
    atTerminate             \* where the walk was when Terminate first returned

\* the error handler of the walker: "none" (not set), or what it returns for
\* every error, "continue" (true) or "stop" (false)
VARIABLES errorHandler

\* a caller of the exported string functions: its arguments, its position
\* and the values returned
VARIABLES extName, extAllow, extPc, extResult, extAdmitted

extVars == << extName, extAllow, extPc, extResult, extAdmitted >>

\* a ParallelWalker: one sub-walk per root, all sending on fileListQueue
VARIABLES
    directories,            \* the roots handed to NewParallelFileWalker
    pwPc,                   \* the position of the ParallelWalker's Start
    subWalks,               \* per root: the sub-walk's position and flags
    firstError,             \* the first error a sub-walk returned ("none": none)
    returned                \* history: the sub-walks in the order they returned

parVars == << directories, pwPc, subWalks, firstError, returned >>

\* the run-time panic that ended the goroutine of Start ("none": none)
VARIABLES panicked

\* the goroutine that calls Walking: its position, the calls made so far and
\* the value returned last ("none": none yet)
VARIABLES wpc, walkingCalls, walkingResult, walkingAt

observerVars == << wpc, walkingCalls, walkingResult, walkingAt >>

\* a caller of FindRepositoryRoot: the working directory of the process with
\* the markers of its ancestors and the argument, and the call
VARIABLES repo, rootCall

\* a caller of the submodule parser: the text and the call
VARIABLES gmInput, gmCall

callerVars == << repo, rootCall, gmInput, gmCall >>

\* the state of the callers that run apart from the single walk, and the
\* panic, which only a send and a close can raise
otherVars == << extVars, parVars, panicked, observerVars, callerVars >>

\* the state of the single walk that a ParallelWalker does not use
singleVars == << walkMutex, terminateWalking, isWalking, pc, stack, err, arrays,
                 tpc, terminateCalls, decided, readLog, listed, terminateAt, atTerminate,
                 terminatedAtStart, panicked, observerVars, callerVars >>

vars == << walkMutex, terminateWalking, isWalking, directory, fileListQueue,
           LocationExcludePattern, PathExclude, IgnoreIgnoreFile, IgnoreGitIgnore,
           IncludeHidden, AllowListExtensions, ExcludeListExtensions,
           queueCap, closeCount, pc, stack, err, startResult, arrays,
           tpc, terminateCalls, terminateBudget, received, consumerDone,
           fsys, sent, decided, readLog, listed, terminateAt, atTerminate,
           terminatedAtStart, handlerCalls, opened, errorHandler, otherVars >>

configVars == << directory, LocationExcludePattern, PathExclude, IgnoreIgnoreFile,
                 IgnoreGitIgnore, IncludeHidden, AllowListExtensions,
                 ExcludeListExtensions, queueCap, terminateBudget, fsys,
                 errorHandler >>

\* the state of the walkers, the channel and their callers
walkState == << walkMutex, terminateWalking, isWalking, directory, fileListQueue,
                LocationExcludePattern, PathExclude, IgnoreIgnoreFile,
                IgnoreGitIgnore, IncludeHidden, AllowListExtensions,
                ExcludeListExtensions, queueCap, closeCount, pc, stack, err,
                startResult, arrays, tpc, terminateCalls, terminateBudget,
                received, consumerDone, fsys, sent, decided, readLog, listed,
                terminateAt, terminatedAtStart, handlerCalls, opened,
                atTerminate, errorHandler, extVars, parVars, panicked,
                observerVars >>

walkerVars == << pc, stack, err, startResult, arrays, isWalking, closeCount,
                 sent, decided, readLog, listed, terminatedAtStart,
                 handlerCalls, opened >>

\* ------------------------------------------------------------------------
\* Go slices of pattern sets: a slice is a window (len, cap) on a backing
\* array; append writes in place while len < cap and otherwise copies the
\* window into a new array of twice the capacity
\* ------------------------------------------------------------------------

NoSet == [base |-> <<>>, kind |-> "none", rules |-> <<>>]

\* []gitignore.GitIgnore{}
EmptySlice == [arr |-> 0, len |-> 0, cap |-> 0]

\* View with the window taken up to the capacity: s[:cap(s)]
ViewWholeArray(h, s) == IF s.arr = 0 THEN <<>> ELSE SubSeq(h[s.arr], 1, s.cap)

\* the elements a slice shows, read from the heap h
View(h, s) == IF s.arr = 0 THEN <<>> ELSE SubSeq(h[s.arr], 1, s.len)

\* runtime.growslice for one more element of a small slice
GrowCap(c) == IF c = 0 THEN 1 ELSE c + c

\* append(s, x): the resulting heap and slice
AppendSlice(h, s, x) ==
    IF s.len < s.cap
    THEN [heap |-> [h EXCEPT ![s.arr][s.len + 1] = x],
          slice |-> [s EXCEPT !.len = s.len + 1]]
    ELSE LET nc == GrowCap(s.cap)
             na == [i \in 1..nc |-> IF i <= s.len THEN View(h, s)[i]
                                    ELSE IF i = s.len + 1 THEN x ELSE NoSet]
         IN [heap |-> Append(h, na),
             slice |-> [arr |-> Len(h) + 1, len |-> s.len + 1, cap |-> nc]]

\* ------------------------------------------------------------------------
\* Errors
\* ------------------------------------------------------------------------

Nil == "nil"
ErrTerminateWalk == "gocodewalker terminated"
ErrOpen == "open failed"
ErrNotDir == "not a directory"
ErrHidden == "IsHidden failed"

\* ------------------------------------------------------------------------
\* The filters of walkDirectoryRecursive
\* ------------------------------------------------------------------------

\* ApplySets with a loop that stops at the first set that matches
RECURSIVE ApplySetsFirstWins(_, _, _)
ApplySetsFirstWins(sets, path, shouldIgnore) ==
    IF sets = <<>> THEN shouldIgnore
    ELSE IF Match(Head(sets), path) THEN Ignore(Head(sets), path)
    ELSE ApplySetsFirstWins(Tail(sets), path, shouldIgnore)

\* the two loops over the pattern sets: every set that matches the path
\* overwrites shouldIgnore with its verdict
RECURSIVE ApplySets(_, _, _)
ApplySets(sets, path, shouldIgnore) ==
    IF sets = <<>> THEN shouldIgnore
    ELSE ApplySets(Tail(sets), path,
                   IF Match(Head(sets), path) THEN Ignore(Head(sets), path)
                   ELSE shouldIgnore)

\* IgnoreVerdict with the two loops in the opposite order
IgnoreVerdictGitLast(gits, igns, path) ==
    ApplySets(gits, path, ApplySets(igns, path, FALSE))

\* shouldIgnore after the loop over gitignores and the loop over ignores
IgnoreVerdict(gits, igns, path) ==
    ApplySets(igns, path, ApplySets(gits, path, FALSE))

\* AllowListed with the flag of the check starting out true
AllowListedAlways(allow, name) == TRUE

\* the allow-list check: the extension, or the extension of the extension,
\* is an entry of the allow-list
AllowListed(allow, name) ==
    LET ext == GetExtension(name) IN
    \/ \E i \in 1..Len(allow) : allow[i] = ext
    \/ \E i \in 1..Len(allow) : allow[i] = GetExtension(ext)

\* DenyListed with only the first entry of the list compared
DenyListedFirst(deny, name) ==
    Len(deny) > 0 /\ deny[1] = GetExtension(name)

\* the deny-list check: the extension is an entry of the deny-list
DenyListed(deny, name) ==
    \E i \in 1..Len(deny) : deny[i] = GetExtension(name)

\* LocationExcluded for a test of the name of the entry in place of its path
LocationExcludedName(patterns, path) ==
    \E i \in 1..Len(patterns) : Contains(BaseName(path), patterns[i])

\* the path contains an entry of LocationExcludePattern
LocationExcluded(patterns, path) ==
    \E i \in 1..Len(patterns) : Contains(path, patterns[i])

\* the name of the directory ends with an entry of PathExclude
PathExcluded(excludes, name) ==
    \E i \in 1..Len(excludes) : HasSuffix(name, excludes[i])

\* IsHidden fails on the entry (the attribute lookup of the platform fails)
HiddenFails(path) == path \in fsys.hiddenFail

\* HiddenChecked for a test of the flag without the negation
HiddenCheckedInverted(includeHidden) == includeHidden

\* if !f.IncludeHidden: the entries are tested with IsHidden
HiddenChecked(includeHidden) == ~includeHidden

\* the body of the loop over files: the error it returns (Nil: none) and
\* whether the file is sent on the channel
FileOutcome(dir, name, gits, igns) ==
    LET path == Join(dir, name)
        s1 == IgnoreVerdict(gits, igns, path)
        s2 == s1 \/ (HiddenChecked(IncludeHidden) /\ IsHidden(name))
        s3 == s2 \/ (Len(AllowListExtensions) # 0
                       /\ ~AllowListed(AllowListExtensions, name))
        s4 == s3 \/ DenyListed(ExcludeListExtensions, name)
        s5 == s4 \/ LocationExcluded(LocationExcludePattern, path)
    IN IF HiddenChecked(IncludeHidden) /\ HiddenFails(path)
       THEN [err |-> ErrHidden, emit |-> FALSE, verdict |-> s1]
       ELSE [err |-> Nil, emit |-> ~s5, verdict |-> s1]

\* the body of the loop over directories: the error it returns and whether
\* the directory is walked
DirOutcome(dir, name, gits, igns) ==
    LET path == Join(dir, name)
        s1 == IgnoreVerdict(gits, igns, path)
        s2 == s1 \/ PathExcluded(PathExclude, name)
        s3 == s2 \/ (HiddenChecked(IncludeHidden) /\ IsHidden(name))
    IN IF HiddenChecked(IncludeHidden) /\ HiddenFails(path)
       THEN [err |-> ErrHidden, emit |-> FALSE, verdict |-> s1]
       ELSE [err |-> Nil, emit |-> ~s3, verdict |-> s1]

\* ------------------------------------------------------------------------
\* The goroutine that runs Start
\* ------------------------------------------------------------------------

\* a call of walkDirectoryRecursive(directory, gitignores, ignores)
NewFrame(dir, gits, igns) ==
    [directory |-> dir, gitignores |-> gits, ignores |-> igns,
     files |-> <<>>, dirs |-> <<>>, fi |-> 1, di |-> 1, pc |-> "lock"]

Top == stack[Len(stack)]

SetTop(f) == [stack EXCEPT ![Len(stack)] = f]

\* TerminateObserved for a check that only looks at the flag once the walk
\* is below the root
TerminateObservedBelowRoot(flag) == flag /\ Len(stack) > 1

\* TerminateObserved for a check that only the outermost call makes
TerminateObservedAtRoot(flag) == flag /\ Len(stack) = 1

\* the termination check at the entry of a directory
TerminateObserved(flag) == flag

\* ShouldReturn for a caller that carries on after a terminated call
ShouldReturnIOError(e) == e # Nil /\ e # ErrTerminateWalk

\* ShouldReturn for a caller that only gives up on termination
ShouldReturnTerminated(e) == e = ErrTerminateWalk

\* the caller's test of the error of the recursive call
ShouldReturn(e) == e # Nil

\* CloseTimes for a Start that returns an error before it closes the channel
CloseTimesOnSuccess(e) == IF e = Nil THEN 1 ELSE 0

\* close(f.fileListQueue) in Start: how many times it runs for a walk that
\* ended with e
CloseTimes(e) == 1

\* a frame returns e: the caller resumes after its recursive call, or, for
\* the outermost frame, Start goes on to close the channel
Return(e) ==
    /\ err' = e
    /\ IF Len(stack) = 1
       THEN /\ stack' = <<>>
            /\ pc' = "close"
       ELSE /\ stack' = [SubSeq(stack, 1, Len(stack) - 1)
                            EXCEPT ![Len(stack) - 1].pc = "ret"]
            /\ pc' = pc

\* Start: f.walkMutex.Lock()
StartLock ==
    /\ pc = "idle"
    /\ walkMutex = "free"
    /\ walkMutex' = "walker"
    /\ pc' = "start"
    /\ terminatedAtStart' = terminateWalking
    /\ UNCHANGED << terminateWalking, isWalking, fileListQueue, closeCount, stack,
                    err, startResult, arrays, tpc, terminateCalls, received,
                    consumerDone, sent, decided, readLog, listed, terminateAt, atTerminate, handlerCalls, opened >>
    /\ UNCHANGED configVars
    /\ UNCHANGED otherVars

\* Start: f.isWalking = true; Unlock(); call walkDirectoryRecursive
StartWalk ==
    /\ pc = "start"
    /\ isWalking' = TRUE
    /\ walkMutex' = "free"
    /\ stack' = << NewFrame(directory, EmptySlice, EmptySlice) >>
    /\ pc' = "walk"
    /\ UNCHANGED << terminateWalking, fileListQueue, closeCount,
                    err, startResult, arrays, tpc, terminateCalls, received,
                    consumerDone, sent, decided, readLog, listed, terminateAt, atTerminate, handlerCalls, opened,
                    terminatedAtStart >>
    /\ UNCHANGED configVars
    /\ UNCHANGED otherVars

\* walkDirectoryRecursive: f.walkMutex.Lock()
EnterLock ==
    /\ pc = "walk"
    /\ Top.pc = "lock"
    /\ walkMutex = "free"
    /\ walkMutex' = "walker"
    /\ stack' = SetTop([Top EXCEPT !.pc = "check"])
    /\ UNCHANGED << terminateWalking, isWalking, fileListQueue, closeCount, pc,
                    err, startResult, arrays, tpc, terminateCalls, received,
                    consumerDone, sent, decided, readLog, listed, terminateAt, atTerminate, handlerCalls, opened,
                    terminatedAtStart >>
    /\ UNCHANGED configVars
    /\ UNCHANGED otherVars

\* UnlockAfterCheck for an unlock that is deferred to the return of the call
UnlockDeferred == "walker"

\* walkDirectoryRecursive: the holder of the lock after the Unlock() that
\* follows the check and comes before os.Open
UnlockAfterCheck == "free"

\* walkDirectoryRecursive: if f.terminateWalking { Unlock(); return
\* ErrTerminateWalk }; Unlock()
CheckTerminate ==
    /\ pc = "walk"
    /\ Top.pc = "check"
    /\ IF TerminateObserved(terminateWalking)
       THEN /\ walkMutex' = "free"
            /\ Return(ErrTerminateWalk)
       ELSE /\ walkMutex' = UnlockAfterCheck
            /\ stack' = SetTop([Top EXCEPT !.pc = "open"])
            /\ UNCHANGED << pc, err >>
    /\ UNCHANGED << terminateWalking, isWalking, fileListQueue, closeCount,
                    startResult, arrays, tpc, terminateCalls, received,
                    consumerDone, sent, decided, readLog, listed, terminateAt, atTerminate, handlerCalls, opened,
                    terminatedAtStart >>
    /\ UNCHANGED configVars
    /\ UNCHANGED otherVars

\* Consulted with the toggle left out
ConsultedAlways(disabled, files, name) == name \in SeqToSet(files)

\* the ignore file of the given name is loaded in this directory: it is
\* listed, its toggle does not disable it, and os.ReadFile succeeds
Consulted(disabled, files, name) ==
    ~disabled /\ name \in SeqToSet(files)

Readable(path) == path \notin fsys.readFail

\* HandlerInvoked for a handler that is also called for a root that is not a
\* directory
HandlerInvokedAlways(handler, e) == handler # "none"

\* HandlerInvoked for a walker that never calls its handler
HandlerInvokedNever(handler, e) == FALSE

\* the error handler is called with the error of os.Open / ReadDir: a handler
\* is set, and the error is not the one of a root that is not a directory
HandlerInvoked(handler, e) == handler # "none" /\ e # ErrNotDir

\* ErrorAfterHandler for a walker that ignores what its handler returns
ErrorAfterHandlerStops(handler, e) == e

\* what walkDirectoryRecursive returns after os.Open / ReadDir failed with
\* e: nil if the handler was called and returned true, otherwise e
ErrorAfterHandler(handler, e) ==
    IF HandlerInvoked(handler, e) /\ handler = "continue" THEN Nil ELSE e

\* OpenError for a ReadDir that lists a regular file as an empty directory
OpenErrorFileIsEmptyDir(dir) ==
    IF dir \in fsys.openFail THEN ErrOpen ELSE Nil

\* the error of os.Open / ReadDir for a directory (Nil: none)
OpenError(dir) ==
    IF dir \in fsys.openFail THEN ErrOpen
    ELSE IF dir \notin TreeDirs THEN ErrNotDir
    ELSE Nil

\* walkDirectoryRecursive: os.Open, ReadDir, the split of the entries into
\* files and dirs, and the loop that loads .gitignore and .ignore
OpenDir ==
    /\ pc = "walk"
    /\ Top.pc = "open"
    /\ LET dir == Top.directory
           files == Listing(TreeFiles(dir), fsys.order)
           dirs == Listing(TreeSubDirs(dir), fsys.order)
           gitPath == Join(dir, gitignoreName)
           ignPath == Join(dir, ignoreName)
           readGit == Consulted(IgnoreGitIgnore, files, gitignoreName)
           readIgn == Consulted(IgnoreIgnoreFile, files, ignoreName)
           a1 == IF readGit /\ Readable(gitPath)
                 THEN AppendSlice(arrays, Top.gitignores,
                                  NewGitIgnore(fsys.text[gitPath], dir, "git"))
                 ELSE [heap |-> arrays, slice |-> Top.gitignores]
           a2 == IF readIgn /\ Readable(ignPath)
                 THEN AppendSlice(a1.heap, Top.ignores,
                                  NewGitIgnore(fsys.text[ignPath], dir, "ign"))
                 ELSE [heap |-> a1.heap, slice |-> Top.ignores]
           e == OpenError(dir)
       IN IF e # Nil
          THEN /\ handlerCalls' = IF HandlerInvoked(errorHandler, e)
                                  THEN Append(handlerCalls, e)
                                  ELSE handlerCalls
               /\ Return(ErrorAfterHandler(errorHandler, e))
               /\ UNCHANGED << arrays, readLog, listed >>
          ELSE /\ arrays' = a2.heap
               /\ handlerCalls' = handlerCalls
               /\ stack' = SetTop([Top EXCEPT !.pc = "loop",
                                              !.files = files,
                                              !.dirs = dirs,
                                              !.gitignores = a1.slice,
                                              !.ignores = a2.slice])
               /\ readLog' = readLog \cup (IF readGit THEN {gitPath} ELSE {})
                                     \cup (IF readIgn THEN {ignPath} ELSE {})
               /\ listed' = listed \cup {dir}
               /\ UNCHANGED << pc, err >>
    /\ opened' = opened \cup {Top.directory}
    /\ UNCHANGED << walkMutex, terminateWalking, isWalking, fileListQueue,
                    closeCount, startResult, tpc, terminateCalls, received,
                    consumerDone, sent, decided, terminateAt, atTerminate,
                    terminatedAtStart >>
    /\ UNCHANGED configVars
    /\ UNCHANGED otherVars

\* File with the name of the entry as its Location
FileLocationIsName(dir, name) == [Location |-> name, Filename |-> name]

\* File{Location, Filename}
File(dir, name) == [Location |-> Join(dir, name), Filename |-> name]

\* no entry was filtered yet
NoDecision == [path |-> <<>>]

\* what the filters did with one entry, and the pattern sets they consulted
Decision(dir, name, isDir, gits, igns, out) ==
    [path |-> Join(dir, name), dir |-> dir, isDir |-> isDir,
     gitignores |-> gits, ignores |-> igns,
     verdict |-> out.verdict, emit |-> out.emit, err |-> out.err]

\* CanSend for a buffer that keeps one slot free
CanSendBelowCap(queue, cap) == Len(queue) + 1 < cap

\* a send on a buffered channel goes through when the buffer has room
CanSend(queue, cap) == Len(queue) < cap

\* the panics of the Go runtime on a closed channel
PanicSend == "send on closed channel"
PanicClose == "close of closed channel"

\* one round of the loop over files; sending blocks while the channel is
\* full, an unbuffered channel hands the record to a waiting receiver, and
\* sending on a closed channel panics
ProcessFile ==
    /\ pc = "walk"
    /\ Top.pc = "loop"
    /\ Top.fi <= Len(Top.files)
    /\ LET name == Top.files[Top.fi]
           gits == View(arrays, Top.gitignores)
           igns == View(arrays, Top.ignores)
           out == FileOutcome(Top.directory, name, gits, igns)
           rec == File(Top.directory, name)
       IN /\ decided' = Decision(Top.directory, name, FALSE, gits, igns, out)
          /\ IF out.err # Nil
             THEN /\ Return(out.err)
                  /\ UNCHANGED << fileListQueue, received, sent, panicked >>
             ELSE IF out.emit /\ closeCount > 0
             THEN /\ panicked' = PanicSend
                  /\ pc' = "panic"
                  /\ UNCHANGED << stack, err, fileListQueue, received, sent >>
             ELSE /\ stack' = SetTop([Top EXCEPT !.fi = Top.fi + 1])
                  /\ UNCHANGED << pc, err, panicked >>
                  /\ IF ~out.emit
                     THEN UNCHANGED << fileListQueue, received, sent >>
                     ELSE /\ sent' = Append(sent, rec)
                          /\ IF queueCap = 0
                             THEN /\ ~consumerDone
                                  /\ received' = Append(received, rec)
                                  /\ UNCHANGED fileListQueue
                             ELSE /\ CanSend(fileListQueue, queueCap)
                                  /\ fileListQueue' = Append(fileListQueue, rec)
                                  /\ UNCHANGED received
    /\ UNCHANGED << walkMutex, terminateWalking, isWalking, closeCount,
                    startResult, arrays, tpc, terminateCalls,
                    consumerDone, readLog, listed, terminateAt, atTerminate, handlerCalls, opened,
                    terminatedAtStart >>
    /\ UNCHANGED configVars
    /\ UNCHANGED << extVars, parVars, observerVars, callerVars >>

\* FilesDone for a directory loop that does not wait for the file loop
FilesDoneAlways(frame) == TRUE

\* the loop over files of the frame has ended: the loop over directories
\* comes after it
FilesDone(frame) == frame.fi > Len(frame.files)

\* one round of the loop over directories; a directory that passes the
\* filters is walked by a recursive call that is handed the two slices.  The
\* test against LocationExcludePattern only sets shouldIgnore, which is not
\* read again before the call.
ProcessDir ==
    /\ pc = "walk"
    /\ Top.pc = "loop"
    /\ FilesDone(Top)
    /\ Top.di <= Len(Top.dirs)
    /\ LET name == Top.dirs[Top.di]
           gits == View(arrays, Top.gitignores)
           igns == View(arrays, Top.ignores)
           out == DirOutcome(Top.directory, name, gits, igns)
       IN /\ decided' = Decision(Top.directory, name, TRUE, gits, igns, out)
          /\ IF out.err # Nil
             THEN Return(out.err)
             ELSE IF out.emit
             THEN /\ stack' = Append(SetTop([Top EXCEPT !.pc = "call"]),
                                     NewFrame(Join(Top.directory, name),
                                              Top.gitignores, Top.ignores))
                  /\ UNCHANGED << pc, err >>
             ELSE /\ stack' = SetTop([Top EXCEPT !.di = Top.di + 1])
                  /\ UNCHANGED << pc, err >>
    /\ UNCHANGED << walkMutex, terminateWalking, isWalking, fileListQueue,
                    closeCount, startResult, arrays, tpc, terminateCalls,
                    received, consumerDone, sent, readLog, listed, terminateAt, atTerminate, handlerCalls, opened,
                    terminatedAtStart >>
    /\ UNCHANGED configVars
    /\ UNCHANGED otherVars

\* the recursive call returned: if err != nil { return err }
AfterCall ==
    /\ pc = "walk"
    /\ Top.pc = "ret"
    /\ IF ShouldReturn(err)
       THEN Return(err)
       ELSE /\ stack' = SetTop([Top EXCEPT !.pc = "loop", !.di = Top.di + 1])
            /\ UNCHANGED << pc, err >>
    /\ UNCHANGED << walkMutex, terminateWalking, isWalking, fileListQueue,
                    closeCount, startResult, arrays, tpc, terminateCalls,
                    received, consumerDone, sent, decided, readLog, listed,
                    terminateAt, atTerminate, handlerCalls, opened,
                    terminatedAtStart >>
    /\ UNCHANGED configVars
    /\ UNCHANGED otherVars

\* both loops are over: return nil
ReturnNil ==
    /\ pc = "walk"
    /\ Top.pc = "loop"
    /\ FilesDone(Top)
    /\ Top.di > Len(Top.dirs)
    /\ Return(Nil)
    /\ UNCHANGED << walkMutex, terminateWalking, isWalking, fileListQueue,
                    closeCount, startResult, arrays, tpc, terminateCalls,
                    received, consumerDone, sent, decided, readLog, listed,
                    terminateAt, atTerminate, handlerCalls, opened,
                    terminatedAtStart >>
    /\ UNCHANGED configVars
    /\ UNCHANGED otherVars

\* a walker whose flag isWalking is cleared by the statement that closes the
\* channel
WalkingClearedAtClose(flag) == FALSE

\* Start: close(f.fileListQueue) leaves isWalking as it is; the flag is
\* cleared afterwards, under the lock
WalkingAfterClose(flag) == flag

\* Start: close(f.fileListQueue); closing a closed channel panics
CloseQueue ==
    /\ pc = "close"
    /\ isWalking' = WalkingAfterClose(isWalking)
    /\ IF closeCount > 0 /\ CloseTimes(err) > 0
       THEN /\ panicked' = PanicClose
            /\ pc' = "panic"
            /\ UNCHANGED closeCount
       ELSE /\ closeCount' = closeCount + CloseTimes(err)
            /\ pc' = "endLock"
            /\ UNCHANGED panicked
    /\ UNCHANGED << walkMutex, terminateWalking, fileListQueue, stack,
                    err, startResult, arrays, tpc, terminateCalls, received,
                    consumerDone, sent, decided, readLog, listed, terminateAt, atTerminate, handlerCalls, opened,
                    terminatedAtStart >>
    /\ UNCHANGED configVars
    /\ UNCHANGED << extVars, parVars, observerVars, callerVars >>

\* Start: f.walkMutex.Lock()
EndLock ==
    /\ pc = "endLock"
    /\ walkMutex = "free"
    /\ walkMutex' = "walker"
    /\ pc' = "end"
    /\ UNCHANGED << terminateWalking, isWalking, fileListQueue, closeCount, stack,
                    err, startResult, arrays, tpc, terminateCalls, received,
                    consumerDone, sent, decided, readLog, listed, terminateAt, atTerminate, handlerCalls, opened,
                    terminatedAtStart >>
    /\ UNCHANGED configVars
    /\ UNCHANGED otherVars

\* Start: f.isWalking = false; Unlock(); return err
EndWalk ==
    /\ pc = "end"
    /\ isWalking' = FALSE
    /\ walkMutex' = "free"
    /\ startResult' = err
    /\ pc' = "done"
    /\ UNCHANGED << terminateWalking, fileListQueue, closeCount, stack,
                    err, arrays, tpc, terminateCalls, received,
                    consumerDone, sent, decided, readLog, listed, terminateAt, atTerminate, handlerCalls, opened,
                    terminatedAtStart >>
    /\ UNCHANGED configVars
    /\ UNCHANGED otherVars

\* Start is called again on the walker after it has returned
StartAgain ==
    /\ pc = "done"
    /\ pc' = "idle"
    /\ startResult' = "none"
    /\ UNCHANGED << walkMutex, terminateWalking, isWalking, fileListQueue,
                    closeCount, stack, err, arrays, tpc, terminateCalls,
                    received, consumerDone, sent, decided, readLog, listed,
                    terminateAt, atTerminate, handlerCalls, opened,
                    terminatedAtStart >>
    /\ UNCHANGED configVars
    /\ UNCHANGED otherVars

\* ------------------------------------------------------------------------
\* The goroutine that calls Terminate
\* ------------------------------------------------------------------------

\* Terminate is called
TerminateCall ==
    /\ tpc = "idle"
    /\ terminateCalls < terminateBudget
    /\ tpc' = "lock"
    /\ terminateCalls' = terminateCalls + 1
    /\ terminateAt' = terminateAt \cup {pc}
    /\ UNCHANGED atTerminate
    /\ UNCHANGED << walkMutex, terminateWalking, fileListQueue, received,
                    consumerDone >>
    /\ UNCHANGED walkerVars
    /\ UNCHANGED configVars
    /\ UNCHANGED otherVars

\* Terminate: f.walkMutex.Lock()
TerminateLock ==
    /\ tpc = "lock"
    /\ walkMutex = "free"
    /\ walkMutex' = "terminator"
    /\ tpc' = "set"
    /\ UNCHANGED << terminateWalking, fileListQueue, terminateCalls, received,
                    consumerDone, terminateAt, atTerminate >>
    /\ UNCHANGED walkerVars
    /\ UNCHANGED configVars
    /\ UNCHANGED otherVars

\* no call of Terminate has returned
NoTerminate == [pc |-> "none", dir |-> <<>>]

\* the directory whose entry check the innermost frame of the walk has
\* passed, with the position of the frame: before os.Open ("open") or in
\* the loops ("loop"); "other" when the walk is not inside a directory
WalkPosition ==
    IF pc = "walk" /\ Top.pc \in {"open", "loop"}
    THEN [pc |-> Top.pc, dir |-> Top.directory]
    ELSE [pc |-> "other", dir |-> <<>>]

\* Terminate: f.terminateWalking = true; the deferred Unlock()
TerminateSet ==
    /\ tpc = "set"
    /\ terminateWalking' = TRUE
    /\ atTerminate' = IF atTerminate = NoTerminate THEN WalkPosition
                      ELSE atTerminate
    /\ walkMutex' = "free"
    /\ tpc' = "idle"
    /\ UNCHANGED << fileListQueue, terminateCalls, received, consumerDone,
                    terminateAt >>
    /\ UNCHANGED walkerVars
    /\ UNCHANGED configVars
    /\ UNCHANGED otherVars

\* ------------------------------------------------------------------------
\* The goroutine that calls Walking
\* ------------------------------------------------------------------------

\* where Start is when another goroutine acts: not called yet, before the
\* walk, between the beginning of the walk and close(f.fileListQueue),
\* after the close, after the consumer has seen the channel closed, and
\* after Start has returned
StartPhase ==
    IF pc = "idle" THEN "notStarted"
    ELSE IF pc = "start" THEN "starting"
    ELSE IF pc = "done" THEN "returned"
    ELSE IF closeCount = 0 THEN "walking"
    ELSE IF consumerDone THEN "seenClosed"
    ELSE "closed"

ObserverIdle ==
    /\ wpc = "idle"
    /\ walkingCalls = 0
    /\ walkingResult = "none"
    /\ walkingAt = "none"

\* Walking is called
WalkingCall ==
    /\ wpc = "idle"
    /\ walkingCalls < MaxWalkingCalls
    /\ wpc' = "lock"
    /\ walkingCalls' = walkingCalls + 1
    /\ walkingAt' = StartPhase
    /\ UNCHANGED << walkMutex, walkingResult, terminateWalking, tpc,
                    terminateCalls, terminateAt, atTerminate, fileListQueue,
                    received, consumerDone, panicked >>
    /\ UNCHANGED walkerVars
    /\ UNCHANGED configVars
    /\ UNCHANGED << extVars, parVars, callerVars >>

\* Walking: f.walkMutex.Lock()
WalkingLock ==
    /\ wpc = "lock"
    /\ walkMutex = "free"
    /\ walkMutex' = "observer"
    /\ wpc' = "read"
    /\ UNCHANGED << walkingCalls, walkingResult, walkingAt, terminateWalking, tpc,
                    terminateCalls, terminateAt, atTerminate, fileListQueue,
                    received, consumerDone, panicked >>
    /\ UNCHANGED walkerVars
    /\ UNCHANGED configVars
    /\ UNCHANGED << extVars, parVars, callerVars >>

\* Walking: return f.isWalking; the deferred Unlock()
WalkingRead ==
    /\ wpc = "read"
    /\ walkingResult' = IF isWalking THEN "true" ELSE "false"
    /\ walkMutex' = "free"
    /\ wpc' = "idle"
    /\ UNCHANGED << walkingCalls, walkingAt, terminateWalking, tpc, terminateCalls,
                    terminateAt, atTerminate, fileListQueue, received,
                    consumerDone, panicked >>
    /\ UNCHANGED walkerVars
    /\ UNCHANGED configVars
    /\ UNCHANGED << extVars, parVars, callerVars >>

\* ------------------------------------------------------------------------
\* The consumer: for f := range fileListQueue
\* ------------------------------------------------------------------------

\* a record is received from the buffer of the channel
Receive ==
    /\ ~consumerDone
    /\ Len(fileListQueue) > 0
    /\ received' = Append(received, Head(fileListQueue))
    /\ fileListQueue' = Tail(fileListQueue)
    /\ UNCHANGED << walkMutex, terminateWalking, tpc, terminateCalls,
                    consumerDone, terminateAt, atTerminate >>
    /\ UNCHANGED walkerVars
    /\ UNCHANGED configVars
    /\ UNCHANGED otherVars

\* the channel is closed and drained: the range loop ends
ReceiveClosed ==
    /\ ~consumerDone
    /\ Len(fileListQueue) = 0
    /\ closeCount > 0
    /\ consumerDone' = TRUE
    /\ UNCHANGED << walkMutex, terminateWalking, fileListQueue, tpc,
                    terminateCalls, received, terminateAt, atTerminate >>
    /\ UNCHANGED walkerVars
    /\ UNCHANGED configVars
    /\ UNCHANGED otherVars

\* ------------------------------------------------------------------------
\* A caller of GetExtension and of the allow-list check of the file loop,
\* with names that no directory listing is needed for
\* ------------------------------------------------------------------------

\* the strings of at most n characters over an alphabet
Strings(alphabet, n) == UNION { [1..k -> alphabet] : k \in 0..n }

somethingC == <<"s", "o", "m", "e", "t", "h", "i", "n", "g", ".", "c">>
travisYml == <<".", "t", "r", "a", "v", "i", "s", ".", "y", "m", "l">>
xSpecTsx == <<"x", ".", "s", "p", "e", "c", ".", "t", "s", "x">>
tsx == <<"t", "s", "x">>
specTsx == <<"s", "p", "e", "c", ".", "t", "s", "x">>
dTs == <<"d", ".", "t", "s">>

\* the names of the tests of GetExtension and of the comment of the retry
TestNames == { somethingC, travisYml, gitignoreName, tDts, xSpecTsx }

TestAllowLists == { << <<"t", "s">> >>, <<dTs>>, <<tsx>>, <<specTsx>>,
                    <<specTsx, tsx>> }

ExtNames == Strings({"a", "B", ".", "/"}, MaxNameLen)

ExtAllowLists ==
    { <<e>> : e \in Strings({"a", "b", "."}, MaxEntryLen) \ {<<>>} }

\* the arguments the caller draws
ExtInputs == (ExtNames \X ExtAllowLists) \cup (TestNames \X TestAllowLists)

\* no call was made
ExtIdle ==
    /\ extName = <<>>
    /\ extAllow = <<>>
    /\ extPc = "off"
    /\ extResult = <<>>
    /\ extAdmitted = FALSE

\* ext := GetExtension(file.Name())
CallGetExtension ==
    /\ extPc = "ready"
    /\ extResult' = GetExtension(extName)
    /\ extPc' = "extracted"
    /\ UNCHANGED << extName, extAllow, extAdmitted >>
    /\ UNCHANGED << walkMutex, terminateWalking, tpc, terminateCalls,
                    fileListQueue, received, consumerDone, terminateAt, atTerminate >>
    /\ UNCHANGED walkerVars
    /\ UNCHANGED configVars
    /\ UNCHANGED parVars
    /\ UNCHANGED << panicked, observerVars, callerVars >>

\* the two loops over AllowListExtensions: the flag a
CallAllowCheck ==
    /\ extPc = "extracted"
    /\ extAdmitted' = AllowListed(extAllow, extName)
    /\ extPc' = "done"
    /\ UNCHANGED << extName, extAllow, extResult >>
    /\ UNCHANGED << walkMutex, terminateWalking, tpc, terminateCalls,
                    fileListQueue, received, consumerDone, terminateAt, atTerminate >>
    /\ UNCHANGED walkerVars
    /\ UNCHANGED configVars
    /\ UNCHANGED parVars
    /\ UNCHANGED << panicked, observerVars, callerVars >>

\* ------------------------------------------------------------------------
\* The ParallelWalker: Start runs one sub-walk per root on a goroutine of
\* its own, all of them sending on the one channel and sharing the one
\* error handler; it waits for all of them, closes the channel and returns
\* the first error.  A sub-walk is the walk of walkDirectoryRecursive over
\* its root, with the recursion unfolded into a list of directories still
\* to be walked; the ignore files of the roots hold no patterns.
\* ------------------------------------------------------------------------

\* no ParallelWalker was constructed
ParIdle ==
    /\ directories = <<>>
    /\ pwPc = "off"
    /\ subWalks = <<>>
    /\ firstError = "none"
    /\ returned = <<>>

\* the sub-walk of a root, about to enter the root
NewSubWalk(root) ==
    [pc |-> "check", dir |-> root, work |-> <<>>, files |-> <<>>,
     terminateWalking |-> FALSE, result |-> "none"]

\* AllReturned for a Start that waits for one sub-walk only
AnyReturned(subs) ==
    subs = <<>> \/ \E i \in DOMAIN subs : subs[i].pc = "joined"

\* AllReturned for a Start that waits for a sub-walk to return even when
\* there is none
AllReturnedOfSome(subs) ==
    subs # <<>> /\ \A i \in DOMAIN subs : subs[i].pc = "joined"

\* the barrier of Start: every sub-walk has returned
AllReturned(subs) == \A i \in DOMAIN subs : subs[i].pc = "joined"

\* the error Start keeps when a sub-walk returns e: the first that is not nil
FirstError(current, e) ==
    IF current = "none" /\ e # Nil THEN e ELSE current

\* SignalPeers for a Start that lets the other sub-walks run on
SignalNoPeer(subs, e) == subs

\* a sub-walk returned e: if e is an error, Terminate is called on every
\* sub-walk
SignalPeers(subs, e) ==
    IF e = Nil THEN subs
    ELSE [i \in DOMAIN subs |-> [subs[i] EXCEPT !.terminateWalking = TRUE]]

\* the files of a directory that pass the filters of the file loop, and the
\* directories that pass those of the directory loop, in listing order
PassingFiles(dir) ==
    SelectSeq(Listing(TreeFiles(dir), fsys.order),
              LAMBDA n : FileOutcome(dir, n, <<>>, <<>>).emit)

PassingDirs(dir) ==
    LET names == SelectSeq(Listing(TreeSubDirs(dir), fsys.order),
                           LAMBDA n : DirOutcome(dir, n, <<>>, <<>>).emit)
    IN [k \in 1..Len(names) |-> Join(dir, names[k])]

\* Start of the ParallelWalker: one goroutine per root
PwStart ==
    /\ pwPc = "idle"
    /\ pwPc' = "wait"
    /\ subWalks' = [i \in 1..Len(directories) |-> NewSubWalk(directories[i])]
    /\ UNCHANGED << directories, firstError, returned >>
    /\ UNCHANGED << fileListQueue, closeCount, sent, received, consumerDone,
                    handlerCalls, opened, startResult >>
    /\ UNCHANGED singleVars
    /\ UNCHANGED configVars
    /\ UNCHANGED extVars

\* a sub-walk enters a directory: the termination check under its lock
SubCheck(i) ==
    /\ subWalks[i].pc = "check"
    /\ subWalks' = [subWalks EXCEPT ![i] =
                       IF TerminateObserved(subWalks[i].terminateWalking)
                       THEN [@ EXCEPT !.pc = "returned",
                                      !.result = ErrTerminateWalk]
                       ELSE [@ EXCEPT !.pc = "open"]]
    /\ UNCHANGED << directories, pwPc, firstError, returned >>
    /\ UNCHANGED << fileListQueue, closeCount, sent, received, consumerDone,
                    handlerCalls, opened, startResult >>
    /\ UNCHANGED singleVars
    /\ UNCHANGED configVars
    /\ UNCHANGED extVars

\* a sub-walk opens and lists a directory; an error goes to the handler
SubOpen(i) ==
    /\ subWalks[i].pc = "open"
    /\ LET dir == subWalks[i].dir
           e == OpenError(dir)
           r == ErrorAfterHandler(errorHandler, e)
       IN /\ opened' = opened \cup {dir}
          /\ handlerCalls' = IF e # Nil /\ HandlerInvoked(errorHandler, e)
                             THEN Append(handlerCalls, e)
                             ELSE handlerCalls
          /\ subWalks' = [subWalks EXCEPT ![i] =
                IF e = Nil
                THEN [@ EXCEPT !.pc = "files",
                               !.files = PassingFiles(dir),
                               !.work = PassingDirs(dir) \o subWalks[i].work]
                ELSE IF r = Nil
                THEN [@ EXCEPT !.pc = "files", !.files = <<>>]
                ELSE [@ EXCEPT !.pc = "returned", !.result = r]]
    /\ UNCHANGED << directories, pwPc, firstError, returned >>
    /\ UNCHANGED << fileListQueue, closeCount, sent, received, consumerDone,
                    startResult >>
    /\ UNCHANGED singleVars
    /\ UNCHANGED configVars
    /\ UNCHANGED extVars

\* a sub-walk sends the record of the next file of its directory
SubSend(i) ==
    /\ subWalks[i].pc = "files"
    /\ subWalks[i].files # <<>>
    /\ LET rec == File(subWalks[i].dir, Head(subWalks[i].files))
       IN /\ sent' = Append(sent, rec)
          /\ IF queueCap = 0
             THEN /\ ~consumerDone
                  /\ received' = Append(received, rec)
                  /\ UNCHANGED fileListQueue
             ELSE /\ Len(fileListQueue) < queueCap
                  /\ fileListQueue' = Append(fileListQueue, rec)
                  /\ UNCHANGED received
    /\ subWalks' = [subWalks EXCEPT ![i].files = Tail(@)]
    /\ UNCHANGED << directories, pwPc, firstError, returned >>
    /\ UNCHANGED << closeCount, consumerDone, handlerCalls, opened,
                    startResult >>
    /\ UNCHANGED singleVars
    /\ UNCHANGED configVars
    /\ UNCHANGED extVars

\* a sub-walk is through with the files of a directory: it enters the next
\* directory, or returns nil when none is left
SubNextDir(i) ==
    /\ subWalks[i].pc = "files"
    /\ subWalks[i].files = <<>>
    /\ subWalks' = [subWalks EXCEPT ![i] =
                       IF subWalks[i].work = <<>>
                       THEN [@ EXCEPT !.pc = "returned", !.result = Nil]
                       ELSE [@ EXCEPT !.pc = "check",
                                      !.dir = Head(subWalks[i].work),
                                      !.work = Tail(subWalks[i].work)]]
    /\ UNCHANGED << directories, pwPc, firstError, returned >>
    /\ UNCHANGED << fileListQueue, closeCount, sent, received, consumerDone,
                    handlerCalls, opened, startResult >>
    /\ UNCHANGED singleVars
    /\ UNCHANGED configVars
    /\ UNCHANGED extVars

\* the goroutine of a sub-walk hands in what the sub-walk returned
SubReturn(i) ==
    /\ subWalks[i].pc = "returned"
    /\ firstError' = FirstError(firstError, subWalks[i].result)
    /\ returned' = Append(returned, i)
    /\ subWalks' = SignalPeers([subWalks EXCEPT ![i].pc = "joined"],
                               subWalks[i].result)
    /\ UNCHANGED << directories, pwPc >>
    /\ UNCHANGED << fileListQueue, closeCount, sent, received, consumerDone,
                    handlerCalls, opened, startResult >>
    /\ UNCHANGED singleVars
    /\ UNCHANGED configVars
    /\ UNCHANGED extVars

\* Start of the ParallelWalker: every sub-walk has returned; close the
\* channel
PwClose ==
    /\ pwPc = "wait"
    /\ AllReturned(subWalks)
    /\ closeCount' = closeCount + 1
    /\ pwPc' = "closed"
    /\ UNCHANGED << directories, subWalks, firstError, returned >>
    /\ UNCHANGED << fileListQueue, sent, received, consumerDone,
                    handlerCalls, opened, startResult >>
    /\ UNCHANGED singleVars
    /\ UNCHANGED configVars
    /\ UNCHANGED extVars

\* Start of the ParallelWalker returns the first error, or nil
PwReturn ==
    /\ pwPc = "closed"
    /\ startResult' = IF firstError = "none" THEN Nil ELSE firstError
    /\ pwPc' = "done"
    /\ UNCHANGED << directories, subWalks, firstError, returned >>
    /\ UNCHANGED << fileListQueue, closeCount, sent, received, consumerDone,
                    handlerCalls, opened >>
    /\ UNCHANGED singleVars
    /\ UNCHANGED configVars
    /\ UNCHANGED extVars

\* ------------------------------------------------------------------------
\* The submodule parser and its caller.  A .gitmodules text is a sequence of
\* lines; the parser reads the characters of each line.
\* ------------------------------------------------------------------------

IsSpace(c) == c \in {" ", "\t", "\r"}

RECURSIVE TrimLeft(_)
TrimLeft(s) ==
    IF s # <<>> /\ IsSpace(Head(s)) THEN TrimLeft(Tail(s)) ELSE s

RECURSIVE TrimRight(_)
TrimRight(s) ==
    IF s # <<>> /\ IsSpace(s[Len(s)]) THEN TrimRight(SubSeq(s, 1, Len(s) - 1))
    ELSE s

\* TrimSpace for a trim of the leading whitespace only
TrimSpaceLeading(s) == TrimLeft(s)

\* strings.TrimSpace
TrimSpace(s) == TrimRight(TrimLeft(s))

HasPrefix(s, pre) == Len(s) >= Len(pre) /\ SubSeq(s, 1, Len(pre)) = pre

pathKey == <<"p", "a", "t", "h">>

\* the value of a line "path = <value>", trimmed; a line with another key, a
\* section header or a line without "=" has none
PathValue(line) ==
    LET t == TrimLeft(line)
        r == TrimLeft(SubSeq(t, Len(pathKey) + 1, Len(t)))
    IN IF HasPrefix(t, pathKey) /\ r # <<>> /\ Head(r) = "="
       THEN [ok |-> TRUE, value |-> TrimSpace(Tail(r))]
       ELSE [ok |-> FALSE, value |-> <<>>]

GmIdle ==
    /\ gmInput = <<>>
    /\ gmCall = [pc |-> "idle", next |-> 1, output |-> <<>>, err |-> Nil]

\* the parser reads the next line and keeps the value of a path line
GmLine ==
    /\ gmCall.pc = "scan"
    /\ gmCall.next <= Len(gmInput)
    /\ LET v == PathValue(gmInput[gmCall.next].text) IN
       gmCall' = [gmCall EXCEPT !.next = gmCall.next + 1,
                                !.output = IF v.ok THEN Append(gmCall.output, v.value)
                                           ELSE gmCall.output]
    /\ UNCHANGED << gmInput, repo, rootCall >>
    /\ UNCHANGED walkState

\* the parser returns the values it kept
GmReturn ==
    /\ gmCall.pc = "scan"
    /\ gmCall.next > Len(gmInput)
    /\ gmCall' = [gmCall EXCEPT !.pc = "done"]
    /\ UNCHANGED << gmInput, repo, rootCall >>
    /\ UNCHANGED walkState

\* ------------------------------------------------------------------------
\* FindRepositoryRoot and its caller.  The working directory is the
\* directory n levels below the root, "/" for n = 0 and "/d/d" for n = 2; an
\* ancestor holds a directory .git, a directory .hg, a regular file .git or
\* none of them.
\* ------------------------------------------------------------------------

dotGit == <<".", "g", "i", "t">>
dotHg == <<".", "h", "g">>

\* the path of the directory n levels below the root
Dir(n) == IF n = 0 THEN <<"/">>
          ELSE [i \in 1..(2 * n) |-> IF i % 2 = 1 THEN "/" ELSE "d"]

MarkerKinds == {"none", "git", "hg", "gitfile"}

\* filepath.Join(dir, name): an empty element is dropped and the separator
\* is not doubled
FilepathJoin(dir, name) ==
    IF dir = <<>> THEN name
    ELSE IF dir[Len(dir)] = "/" THEN dir \o name
    ELSE dir \o <<"/">> \o name

\* the path the operating system resolves: a relative path is taken from
\* the working directory of the process
Absolute(path) ==
    IF path # <<>> /\ path[1] = "/" THEN path
    ELSE FilepathJoin(Dir(repo.depth), path)

\* os.Stat(path) succeeds and stat.IsDir()
StatIsDir(path) ==
    \E n \in DOMAIN repo.marks :
        \/ Absolute(path) = FilepathJoin(Dir(n), dotGit) /\ repo.marks[n] = "git"
        \/ Absolute(path) = FilepathJoin(Dir(n), dotHg) /\ repo.marks[n] = "hg"

checkForGitOrMercurial(curdir) ==
    \/ StatIsDir(FilepathJoin(curdir, dotGit))
    \/ StatIsDir(FilepathJoin(curdir, dotHg))

RootIdle ==
    /\ repo = [depth |-> 0, getwdErr |-> FALSE, marks |-> [n \in {0} |-> "none"],
               start |-> <<>>]
    /\ rootCall = [pc |-> "idle", curdir |-> <<>>, lastIndex |-> -1,
                   result |-> <<>>]

\* FindRepositoryRoot: curdir, err := os.Getwd(); if err != nil { return
\* startDirectory }
RootGetwd ==
    /\ rootCall.pc = "call"
    /\ rootCall' = IF repo.getwdErr
                   THEN [rootCall EXCEPT !.pc = "done", !.result = repo.start]
                   ELSE [rootCall EXCEPT !.pc = "here", !.curdir = Dir(repo.depth)]
    /\ UNCHANGED << repo, gmInput, gmCall >>
    /\ UNCHANGED walkState

\* FindRepositoryRoot: if checkForGitOrMercurial(curdir) { return
\* startDirectory }; lastIndex := strings.LastIndex(curdir, separator)
RootCheckHere ==
    /\ rootCall.pc = "here"
    /\ rootCall' = IF checkForGitOrMercurial(rootCall.curdir)
                   THEN [rootCall EXCEPT !.pc = "done", !.result = repo.start]
                   ELSE [rootCall EXCEPT !.pc = "loop",
                                         !.lastIndex = LastIndex(rootCall.curdir, "/")]
    /\ UNCHANGED << repo, gmInput, gmCall >>
    /\ UNCHANGED walkState

\* FindRepositoryRoot: one round of the loop for lastIndex != -1, or the
\* return of startDirectory after it
RootLoop ==
    /\ rootCall.pc = "loop"
    /\ LET cut == SubSeq(rootCall.curdir, 1, rootCall.lastIndex) IN
       rootCall' =
          IF rootCall.lastIndex = -1
          THEN [rootCall EXCEPT !.pc = "done", !.result = repo.start]
          ELSE IF checkForGitOrMercurial(cut)
          THEN [rootCall EXCEPT !.pc = "done", !.curdir = cut, !.result = cut]
          ELSE [rootCall EXCEPT !.curdir = cut, !.lastIndex = LastIndex(cut, "/")]
    /\ UNCHANGED << repo, gmInput, gmCall >>
    /\ UNCHANGED walkState

\* ------------------------------------------------------------------------
\* The walkers and trees that are checked
\* ------------------------------------------------------------------------

EmptyText == [p \in IgnoreFilePaths |-> <<>>]

\* texts of ignore files
IgnA == << Pat(aTxt, FALSE) >>
NegA == << Pat(aTxt, TRUE) >>
IgnNegA == << Pat(aTxt, FALSE), Pat(aTxt, TRUE) >>
IgnG == << Pat(<<"g">>, FALSE) >>
NegG == << Pat(<<"g">>, TRUE) >>
IgnE == << Pat(<<"e">>, FALSE) >>

FileTexts == { <<>>, IgnA, NegA }
DirTexts == { <<>>, IgnG, NegG }

rGit == Join(pR, gitignoreName)
rIgn == Join(pR, ignoreName)
dGit == Join(pD, gitignoreName)
eGit == Join(pE, gitignoreName)
fGit == Join(pF, gitignoreName)
gGit == Join(pG, gitignoreName)
gIgn == Join(pG, ignoreName)
xIgn == Join(pX, ignoreName)

txt == <<"t", "x", "t">>
md == <<"m", "d">>
go == <<"g", "o">>
ts == <<"t", "s">>

\* NewFileWalker(pR, queue) over a tree without ignore patterns or failures,
\* with an unbuffered channel and no call of Terminate
Default ==
    [directory |-> pR, LocationExcludePattern |-> <<>>, PathExclude |-> <<>>,
     IgnoreIgnoreFile |-> FALSE, IgnoreGitIgnore |-> FALSE,
     IncludeHidden |-> FALSE, AllowListExtensions |-> <<>>,
     ExcludeListExtensions |-> <<>>,
     text |-> EmptyText, order |-> "fwd", openFail |-> {}, readFail |-> {},
     hiddenFail |-> {}, cap |-> 0, terminations |-> 0, handler |-> "none"]

Orders == {"fwd", "rev"}

\* patterns for a file along one branch of the tree, in both kinds of file
BranchConfigs ==
    { [Default EXCEPT !.text = [EmptyText EXCEPT ![rGit] = t1, ![dGit] = t2,
                                                 ![gGit] = t3, ![rIgn] = t4,
                                                 ![gIgn] = t5],
                      !.order = o] :
        t1 \in FileTexts, t2 \in FileTexts, t3 \in FileTexts,
        t4 \in FileTexts, t5 \in FileTexts, o \in Orders }

\* patterns for a file in sibling and cousin directories
SiblingConfigs ==
    { [Default EXCEPT !.text = [EmptyText EXCEPT ![eGit] = t1, ![fGit] = t2,
                                                 ![gGit] = t3, ![xIgn] = t4],
                      !.order = o] :
        t1 \in FileTexts \cup {IgnNegA}, t2 \in FileTexts, t3 \in FileTexts,
        t4 \in FileTexts, o \in Orders }

\* patterns for a directory
DirPatternConfigs ==
    { [Default EXCEPT !.text = [EmptyText EXCEPT ![rGit] = t1, ![eGit] = t2,
                                                 ![rIgn] = t3]] :
        t1 \in DirTexts \cup {IgnE}, t2 \in DirTexts, t3 \in DirTexts }

\* the toggles, with ignore files that can or cannot be read
ToggleConfigs ==
    { [Default EXCEPT !.IgnoreGitIgnore = g, !.IgnoreIgnoreFile = i,
                      !.IncludeHidden = h, !.readFail = rf,
                      !.text = [p \in IgnoreFilePaths |-> t]] :
        g \in BOOLEAN, i \in BOOLEAN, h \in BOOLEAN,
        rf \in { {}, {rGit}, {gIgn} }, t \in { <<>>, IgnA } }

\* the extension lists
ExtensionConfigs ==
    { [Default EXCEPT !.AllowListExtensions = a, !.ExcludeListExtensions = d,
                      !.IncludeHidden = h] :
        a \in { <<>>, <<txt>>, <<md>>, <<txt, md>>, <<ts>>, << <<"M", "D">> >> },
        d \in { <<>>, <<txt>>, <<md>>, <<md, go, txt>> },
        h \in BOOLEAN }

\* the path filters
PathConfigs ==
    { [Default EXCEPT !.LocationExcludePattern = l, !.PathExclude = x,
                      !.IncludeHidden = h] :
        l \in { <<>>, << <<"/", "e", "/">> >>, << <<"a", ".", "t">> >>,
                << <<"g">>, <<"x">> >>,
                << <<"b", ".", "m">>, <<"/", "e", "/">> >> },
        x \in { <<>>, << <<"e">> >>, << <<"h">>, <<"x">> >>,
                << <<"d", "/", "e">> >>, << <<>> >> },
        h \in BOOLEAN }

\* directories whose path holds an entry of LocationExcludePattern and
\* that cannot be opened
ExcludedDirConfigs ==
    { [Default EXCEPT !.LocationExcludePattern = l, !.openFail = f,
                      !.order = o] :
        l \in { << <<"/", "e", "/">> >>, << <<"x">> >> },
        f \in { {pF}, {pG}, {pX} },
        o \in Orders }

\* walks that run next to calls of Terminate and a consumer that may lag,
\* over trees with and without failing directories
ConcurrentConfigs ==
    { [Default EXCEPT !.cap = q, !.terminations = MaxTerminateCalls] :
        q \in 0..MaxQueueCap }
    \cup
    { [c EXCEPT !.cap = q, !.terminations = MaxTerminateCalls] :
        q \in {0, MaxQueueCap},
        c \in { [Default EXCEPT !.order = "rev", !.IncludeHidden = TRUE],
                [Default EXCEPT !.text = [EmptyText EXCEPT ![rGit] = IgnA,
                                                           ![gGit] = NegA]],
                [Default EXCEPT !.openFail = {pR}],
                [Default EXCEPT !.openFail = {pE}],
                [Default EXCEPT !.openFail = {pX}],
                [Default EXCEPT !.hiddenFail = {Join(pD, aTxt)}],
                [Default EXCEPT !.hiddenFail = {pG}, !.order = "rev"],
                [Default EXCEPT !.directory = pQ] } }

\* walkers with an error handler, over trees with failing directories and
\* over a root that is a regular file
HandlerConfigs ==
    { [Default EXCEPT !.handler = h, !.openFail = f, !.order = o,
                      !.directory = d] :
        h \in {"continue", "stop"},
        f \in { {}, {pR}, {pE}, {pX}, {pE, pX} },
        o \in Orders,
        d \in {pR, pQ} }

\* patterns that name a hidden directory and a hidden file, negated or not
IgnH == << Pat(<<".", "h">>, FALSE) >>
NegH == << Pat(<<".", "h">>, TRUE) >>
IgnEnv == << Pat(dotEnv, FALSE) >>
NegEnv == << Pat(dotEnv, TRUE) >>

HiddenConfigs ==
    { [Default EXCEPT !.text = [EmptyText EXCEPT ![rGit] = t1, ![xIgn] = t2],
                      !.IncludeHidden = h] :
        t1 \in { <<>>, IgnH, NegH }, t2 \in { <<>>, IgnEnv, NegEnv },
        h \in BOOLEAN }

Configs ==
    HiddenConfigs \cup BranchConfigs \cup SiblingConfigs \cup DirPatternConfigs \cup ToggleConfigs
      \cup ExtensionConfigs \cup PathConfigs \cup ConcurrentConfigs
      \cup HandlerConfigs \cup ExcludedDirConfigs

WalkerWith(c) ==
    /\ walkMutex = "free"
    /\ terminateWalking = FALSE
    /\ isWalking = FALSE
    /\ directory = c.directory
    /\ fileListQueue = <<>>
    /\ LocationExcludePattern = c.LocationExcludePattern
    /\ PathExclude = c.PathExclude
    /\ IgnoreIgnoreFile = c.IgnoreIgnoreFile
    /\ IgnoreGitIgnore = c.IgnoreGitIgnore
    /\ IncludeHidden = c.IncludeHidden
    /\ AllowListExtensions = c.AllowListExtensions
    /\ ExcludeListExtensions = c.ExcludeListExtensions
    /\ queueCap = c.cap
    /\ closeCount = 0
    /\ pc = "idle"
    /\ stack = <<>>
    /\ err = Nil
    /\ startResult = "none"
    /\ arrays = <<>>
    /\ tpc = "idle"
    /\ terminateCalls = 0
    /\ terminateBudget = c.terminations
    /\ received = <<>>
    /\ consumerDone = FALSE
    /\ fsys = [text |-> c.text, order |-> c.order, openFail |-> c.openFail,
               readFail |-> c.readFail, hiddenFail |-> c.hiddenFail]
    /\ sent = <<>>
    /\ decided = NoDecision
    /\ readLog = {}
    /\ listed = {}
    /\ terminateAt = {}
    /\ atTerminate = NoTerminate
    /\ panicked = "none"
    /\ ObserverIdle
    /\ terminatedAtStart = FALSE
    /\ handlerCalls = <<>>
    /\ opened = {}
    /\ errorHandler = c.handler
    /\ ExtIdle
    /\ ParIdle

InitWith(c) ==
    /\ WalkerWith(c)
    /\ RootIdle
    /\ GmIdle

Init == \E c \in Configs : InitWith(c)

Next ==
    \/ StartLock
    \/ StartWalk
    \/ EnterLock
    \/ CheckTerminate
    \/ OpenDir
    \/ ProcessFile
    \/ ProcessDir
    \/ AfterCall
    \/ ReturnNil
    \/ CloseQueue
    \/ EndLock
    \/ EndWalk
    \/ TerminateCall
    \/ TerminateLock
    \/ TerminateSet
    \/ Receive
    \/ ReceiveClosed

Spec == Init /\ [][Next]_vars

\* walkers whose Start is called again after it has returned, next to calls
\* of Terminate
RestartConfigs ==
    { [Default EXCEPT !.cap = q, !.terminations = t, !.directory = d] :
        q \in 0..MaxQueueCap, t \in {0, MaxTerminateCalls}, d \in {pE, pX, pQ} }

InitRestart == \E c \in RestartConfigs : InitWith(c)

NextRestart ==
    \/ Next
    \/ StartAgain

SpecRestart == InitRestart /\ [][NextRestart]_vars

\* walks next to calls of Terminate and of Walking, with channels that hold
\* fewer records than the walk sends
LiveConfigs ==
    { [Default EXCEPT !.cap = q, !.terminations = t, !.directory = d] :
        q \in {0, 1, MaxQueueCap}, t \in {0, 1}, d \in {pE, pQ} }

InitLive == \E c \in LiveConfigs : InitWith(c)

\* the steps of the goroutine that runs Start
WalkerNext ==
    \/ StartLock
    \/ StartWalk
    \/ EnterLock
    \/ CheckTerminate
    \/ OpenDir
    \/ ProcessFile
    \/ ProcessDir
    \/ AfterCall
    \/ ReturnNil
    \/ CloseQueue
    \/ EndLock
    \/ EndWalk

TerminatorNext ==
    \/ TerminateCall
    \/ TerminateLock
    \/ TerminateSet

ObserverNext ==
    \/ WalkingCall
    \/ WalkingLock
    \/ WalkingRead

ConsumerNext ==
    \/ Receive
    \/ ReceiveClosed

NextLive ==
    \/ WalkerNext
    \/ TerminatorNext
    \/ ObserverNext
    \/ ConsumerNext

\* the goroutines that run Start, Terminate and Walking are scheduled as
\* long as they can take a step; the consumer may stop receiving
SpecStalled ==
    /\ InitLive
    /\ [][NextLive]_vars
    /\ WF_vars(WalkerNext)
    /\ WF_vars(TerminatorNext)
    /\ WF_vars(ObserverNext)

\* the same, with a consumer that keeps receiving until the channel is
\* closed
SpecLive == SpecStalled /\ WF_vars(ConsumerNext)

\* the calls of FindRepositoryRoot: a working directory at every depth, with
\* every marking of its ancestors, known to the process or not
InitRoot ==
    /\ WalkerWith(Default)
    /\ GmIdle
    /\ \E n \in 0..MaxDepth, e \in BOOLEAN, m \in [0..MaxDepth -> MarkerKinds],
          a \in { <<".">>, Dir(1) } :
          /\ \A k \in (n + 1)..MaxDepth : m[k] = "none"
          /\ repo = [depth |-> n, getwdErr |-> e, marks |-> m, start |-> a]
    /\ rootCall = [pc |-> "call", curdir |-> <<>>, lastIndex |-> -1,
                   result |-> <<>>]

NextRoot ==
    \/ RootGetwd
    \/ RootCheckHere
    \/ RootLoop

SpecRoot == InitRoot /\ [][NextRoot]_vars

\* a line of a .gitmodules text: its characters, its key and its value
GmText(text, key, value) == [text |-> text, key |-> key, value |-> value]

\* the lines of the texts that are parsed: a section header, path lines with
\* and without whitespace around the key, the "=" and the value, lines with
\* other keys, a line without "=" and an empty line
GmLines ==
    { GmText(<<"[", "s", "]">>, "header", <<>>),
      GmText(<<"\t", "p", "a", "t", "h", " ", "=", " ", "a">>, "path", <<"a">>),
      GmText(<<"p", "a", "t", "h", "=", "b", "/", "c", " ">>, "path",
             <<"b", "/", "c">>),
      GmText(<<" ", "p", "a", "t", "h", "\t", "=", " ", "e", " ", "f", "\r">>,
             "path", <<"e", " ", "f">>),
      GmText(<<"\t", "u", "r", "l", " ", "=", " ", "u">>, "url", <<"u">>),
      GmText(<<"\t", "b", "r", "a", "n", "c", "h", " ", "=", " ", "p", "a", "t", "h">>,
             "branch", pathKey),
      GmText(<<"p", "a", "t", "h", "s", " ", "=", " ", "z">>, "paths", <<"z">>),
      GmText(<<"p", "a", "t", "h", " ", "a">>, "malformed", <<>>),
      GmText(<<>>, "empty", <<>>) }

RECURSIVE GmDocuments(_)
GmDocuments(n) ==
    IF n = 0 THEN { <<>> }
    ELSE LET shorter == GmDocuments(n - 1)
         IN shorter \cup { Append(d, l) : d \in shorter, l \in GmLines }

\* the calls of the submodule parser: every text of at most MaxLines lines
\* that is empty or starts with a section header
InitModules ==
    /\ WalkerWith(Default)
    /\ RootIdle
    /\ gmInput \in { d \in GmDocuments(MaxLines) :
                        d # <<>> => d[1].key = "header" }
    /\ gmCall = [pc |-> "scan", next |-> 1, output |-> <<>>, err |-> Nil]

NextModules ==
    \/ GmLine
    \/ GmReturn

SpecModules == InitModules /\ [][NextModules]_vars

\* the calls of GetExtension and of the allow-list check, on a walker that
\* is not started
InitExt ==
    /\ \E i \in ExtInputs : extName = i[1] /\ extAllow = i[2]
    /\ extPc = "ready"
    /\ extResult = <<>>
    /\ extAdmitted = FALSE
    /\ walkMutex = "free"
    /\ terminateWalking = FALSE
    /\ isWalking = FALSE
    /\ directory = pR
    /\ fileListQueue = <<>>
    /\ LocationExcludePattern = <<>>
    /\ PathExclude = <<>>
    /\ IgnoreIgnoreFile = FALSE
    /\ IgnoreGitIgnore = FALSE
    /\ IncludeHidden = FALSE
    /\ AllowListExtensions = extAllow
    /\ ExcludeListExtensions = <<>>
    /\ queueCap = 0
    /\ closeCount = 0
    /\ pc = "idle"
    /\ stack = <<>>
    /\ err = Nil
    /\ startResult = "none"
    /\ arrays = <<>>
    /\ tpc = "idle"
    /\ terminateCalls = 0
    /\ terminateBudget = 0
    /\ received = <<>>
    /\ consumerDone = FALSE
    /\ fsys = [text |-> EmptyText, order |-> "fwd", openFail |-> {},
               readFail |-> {}, hiddenFail |-> {}]
    /\ sent = <<>>
    /\ decided = NoDecision
    /\ readLog = {}
    /\ listed = {}
    /\ terminateAt = {}
    /\ atTerminate = NoTerminate
    /\ panicked = "none"
    /\ ObserverIdle
    /\ RootIdle
    /\ GmIdle
    /\ terminatedAtStart = FALSE
    /\ handlerCalls = <<>>
    /\ opened = {}
    /\ errorHandler = "none"
    /\ ParIdle

NextExt ==
    \/ CallGetExtension
    \/ CallAllowCheck

SpecExt == InitExt /\ [][NextExt]_vars

\* the root lists of the ParallelWalkers that are checked: none, one, the
\* same root twice, different roots, a root that is a regular file
RootLists ==
    { <<>>, <<pX>>, <<pF, pF>>, <<pE, pX>>, <<pX, pE>>, <<pQ, pE>>,
      <<pF, pX, pF>> }

\* NewParallelFileWalker(directories, queue), with or without a handler,
\* over trees with and without directories that cannot be opened
InitParallel ==
    /\ directories \in RootLists
    /\ pwPc = "idle"
    /\ subWalks = <<>>
    /\ firstError = "none"
    /\ returned = <<>>
    /\ errorHandler \in {"none", "continue", "stop"}
    /\ queueCap \in 0..MaxQueueCap
    /\ \E f \in { {}, {pX}, {pF}, {pG}, {pE, pX} }, o \in Orders :
          fsys = [text |-> EmptyText, order |-> o, openFail |-> f,
                  readFail |-> {}, hiddenFail |-> {}]
    /\ walkMutex = "free"
    /\ terminateWalking = FALSE
    /\ isWalking = FALSE
    /\ directory = <<>>
    /\ fileListQueue = <<>>
    /\ LocationExcludePattern = <<>>
    /\ PathExclude = <<>>
    /\ IgnoreIgnoreFile = FALSE
    /\ IgnoreGitIgnore = FALSE
    /\ IncludeHidden = FALSE
    /\ AllowListExtensions = <<>>
    /\ ExcludeListExtensions = <<>>
    /\ closeCount = 0
    /\ pc = "idle"
    /\ stack = <<>>
    /\ err = Nil
    /\ startResult = "none"
    /\ arrays = <<>>
    /\ tpc = "idle"
    /\ terminateCalls = 0
    /\ terminateBudget = 0
    /\ received = <<>>
    /\ consumerDone = FALSE
    /\ sent = <<>>
    /\ decided = NoDecision
    /\ readLog = {}
    /\ listed = {}
    /\ terminateAt = {}
    /\ atTerminate = NoTerminate
    /\ panicked = "none"
    /\ ObserverIdle
    /\ RootIdle
    /\ GmIdle
    /\ terminatedAtStart = FALSE
    /\ handlerCalls = <<>>
    /\ opened = {}
    /\ ExtIdle

NextParallel ==
    \/ PwStart
    \/ \E i \in DOMAIN subWalks : SubCheck(i)
    \/ \E i \in DOMAIN subWalks : SubOpen(i)
    \/ \E i \in DOMAIN subWalks : SubSend(i)
    \/ \E i \in DOMAIN subWalks : SubNextDir(i)
    \/ \E i \in DOMAIN subWalks : SubReturn(i)
    \/ PwClose
    \/ PwReturn
    \/ Receive
    \/ ReceiveClosed

SpecParallel == InitParallel /\ [][NextParallel]_vars

\* ------------------------------------------------------------------------
\* Properties
\* ------------------------------------------------------------------------

\* the decision made last, if any: every decision of a walk is the last one
\* in the state that follows it
DecisionSet == IF decided = NoDecision THEN {} ELSE {decided}

FileDecisions == { d \in DecisionSet : ~d.isDir }

\* C1: for one call of Start the channel is closed exactly once on every
\* exit path (walk completed, termination observed, I/O error): it is never
\* closed twice, it is closed when Start has returned, and once it is closed
\* no record is sent any more, so the close comes after the last record.
C1_ClosedExactlyOnce ==
    [][ /\ closeCount' <= 1
        /\ (pc' = "done" => closeCount' = 1)
        /\ (closeCount >= 1 => sent' = sent)
        /\ (closeCount' > closeCount => stack' = <<>> /\ sent' = sent) ]_vars

\* C1 witness: Start has returned an I/O error after it sent records, and
\* the channel is closed
C1_Witness ==
    /\ pc = "done"
    /\ startResult = ErrOpen
    /\ Len(sent) > 0
    /\ closeCount = 1

\* C2: if Terminate has returned (once or several times) before Start is
\* called, Start sends no record, returns ErrTerminateWalk and closes the
\* channel; a call of Terminate made before Start finds the lock free.
C2_TerminateBeforeStart ==
    /\ (pc = "idle" /\ tpc = "lock") => walkMutex = "free"
    /\ terminatedAtStart => sent = <<>> /\ listed = {}
    /\ (terminatedAtStart /\ pc = "done") =>
          startResult = ErrTerminateWalk /\ closeCount = 1

\* C2 witness: two calls of Terminate returned before Start, and Start has
\* returned
C2_Witness ==
    /\ terminatedAtStart
    /\ terminateAt = {"idle"}
    /\ terminateCalls = MaxTerminateCalls
    /\ tpc = "idle"
    /\ pc = "done"
    /\ closeCount = 1

\* C3: once the check at the entry of a directory has returned
\* ErrTerminateWalk, no record is sent any more, and no enclosing frame
\* filters or lists another entry.
C3_NoRecordAfterTermination ==
    [][ err = ErrTerminateWalk =>
          /\ sent' = sent
          /\ decided' = decided
          /\ listed' = listed
          /\ err' = ErrTerminateWalk ]_vars

\* C3 witness: termination was observed in a subdirectory after records were
\* sent, and the enclosing frame still has sibling directories to walk
C3_Witness ==
    /\ err = ErrTerminateWalk
    /\ Len(sent) > 0
    /\ pc = "walk"
    /\ Len(stack) >= 1
    /\ Top.pc = "ret"
    /\ Top.di < Len(Top.dirs)

\* C4: if Terminate is called while the walk is in progress, Start returns
\* ErrTerminateWalk.
C4_TerminateDuringWalk ==
    (pc = "done" /\ "walk" \in terminateAt) => startResult = ErrTerminateWalk

\* the record of the file of a decision was sent on the channel
Emitted(d) == \E k \in 1..Len(sent) : sent[k].Location = d.path

\* the position of the last set of the sequence that matches the path
\* (0: none matches)
LastMatch(sets, path) ==
    LET hits == { i \in 1..Len(sets) : Match(sets[i], path) }
    IN IF hits = {} THEN 0 ELSE CHOOSE i \in hits : \A j \in hits : j <= i

\* no filter other than the ignore files can exclude the entry of a decision
OnlyIgnoreFiles(d) ==
    /\ d.err = Nil
    /\ IncludeHidden \/ ~IsHidden(BaseName(d.path))
    /\ AllowListExtensions = <<>>
    /\ ExcludeListExtensions = <<>>
    /\ LocationExcludePattern = <<>>
    /\ PathExclude = <<>>

\* the entry of a decision reached the output: the file was sent, the
\* directory was walked
Included(d) == IF d.isDir THEN d.emit ELSE Emitted(d)

\* C5: among the .gitignore sets collected from the root down to the current
\* directory the last set that matches a path decides, as long as no .ignore
\* set matches: an excluding verdict removes the path from the output, and a
\* deeper negating set re-includes a path that a shallower set excludes.
C5_LastGitignoreWins ==
    \A d \in DecisionSet :
        LET g == LastMatch(d.gitignores, d.path) IN
        LastMatch(d.ignores, d.path) = 0 =>
            /\ d.verdict = (g # 0 /\ Ignore(d.gitignores[IF g = 0 THEN 1 ELSE g], d.path))
            /\ d.verdict => ~Included(d)
            /\ (d.verdict /\ d.isDir) => Join(d.dir, BaseName(d.path)) \notin listed
            /\ (g # 0 /\ ~d.verdict /\ OnlyIgnoreFiles(d)) => Included(d)

\* C5 witness: a file that the root's .gitignore excludes and a deeper
\* .gitignore re-includes was sent
C5_Witness ==
    \E d \in FileDecisions :
        /\ Len(d.gitignores) >= 2
        /\ d.ignores = <<>> \/ LastMatch(d.ignores, d.path) = 0
        /\ Match(d.gitignores[1], d.path)
        /\ Ignore(d.gitignores[1], d.path)
        /\ LastMatch(d.gitignores, d.path) > 1
        /\ Emitted(d)

\* C6: the verdict of the ignore files for a path is that of the last
\* matching .ignore set if one matches, otherwise that of the last matching
\* .gitignore set, otherwise include; without a match nothing is excluded.
C6_IgnoreOverridesGitignore ==
    \A d \in DecisionSet :
        LET g == LastMatch(d.gitignores, d.path)
            i == LastMatch(d.ignores, d.path)
        IN /\ d.verdict =
                 (IF i # 0 THEN Ignore(d.ignores[i], d.path)
                  ELSE IF g # 0 THEN Ignore(d.gitignores[g], d.path)
                  ELSE FALSE)
           /\ (i = 0 /\ g = 0 /\ OnlyIgnoreFiles(d)) => Included(d)
           /\ (i # 0 /\ ~Ignore(d.ignores[i], d.path) /\ OnlyIgnoreFiles(d))
                 => Included(d)
           /\ (i # 0 /\ Ignore(d.ignores[i], d.path)) => ~Included(d)

\* C6 witness: an .ignore file of the root re-includes a file that the
\* .gitignore of the file's own, deeper directory excludes, and it was sent
C6_Witness ==
    \E d \in FileDecisions :
        LET g == LastMatch(d.gitignores, d.path)
            i == LastMatch(d.ignores, d.path)
        IN /\ i # 0 /\ g # 0
           /\ Ignore(d.gitignores[g], d.path)
           /\ ~Ignore(d.ignores[i], d.path)
           /\ Len(d.ignores[i].base) < Len(d.gitignores[g].base)
           /\ Emitted(d)

\* the directories from the walk root down to dir, as a set of paths
Lineage(dir) ==
    { SubSeq(dir, 1, n) : n \in { m \in Len(directory)..Len(dir) :
                                     m = Len(dir) \/ dir[m + 1] = "/" } }

\* the directories of the lineage whose ignore file of the kind is loaded
Holders(dir, kind) ==
    LET name == IF kind = "git" THEN gitignoreName ELSE ignoreName
        off == IF kind = "git" THEN IgnoreGitIgnore ELSE IgnoreIgnoreFile
    IN { q \in Lineage(dir) : /\ ~off
                             /\ Join(q, name) \in IgnoreFilePaths
                             /\ Join(q, name) \notin fsys.readFail }

RECURSIVE RootToLeaf(_, _)
RootToLeaf(holders, kind) ==
    IF holders = {} THEN <<>>
    ELSE LET q == CHOOSE x \in holders : \A y \in holders : Len(x) <= Len(y)
             name == IF kind = "git" THEN gitignoreName ELSE ignoreName
         IN << NewGitIgnore(fsys.text[Join(q, name)], q, kind) >>
              \o RootToLeaf(holders \ {q}, kind)

\* C7: the pattern sets consulted for the entries of a directory D are
\* exactly those of the ignore files of D and of D's ancestors up to the
\* walk root, in root-to-leaf order, whatever was walked before.
C7_SetsScopedToLineage ==
    \A d \in DecisionSet :
        /\ d.gitignores = RootToLeaf(Holders(d.dir, "git"), "git")
        /\ d.ignores = RootToLeaf(Holders(d.dir, "ign"), "ign")

\* C7 witness: two sibling directories with different .gitignore files were
\* walked one after the other below three ancestors with a .gitignore, and
\* the second consulted its own file as the fourth set
C7_Witness ==
    \E d \in FileDecisions :
        /\ d.dir \in {pF, pG}
        /\ {pF, pG} \subseteq listed
        /\ fsys.text[fGit] # fsys.text[gGit]
        /\ Len(d.gitignores) > 3
        /\ d.gitignores[4].base = d.dir
        /\ d.gitignores[4].rules = fsys.text[Join(d.dir, gitignoreName)]

\* C8: with IgnoreGitIgnore no .gitignore is read and none contributes a
\* set, with IgnoreIgnoreFile the same holds for .ignore, and without the
\* toggle the ignore file of every directory that is listed is read.
C8_IgnoreFileToggles ==
    /\ IgnoreGitIgnore =>
          /\ \A p \in readLog : BaseName(p) # gitignoreName
          /\ \A d \in DecisionSet : d.gitignores = <<>>
    /\ IgnoreIgnoreFile =>
          /\ \A p \in readLog : BaseName(p) # ignoreName
          /\ \A d \in DecisionSet : d.ignores = <<>>
    /\ ~IgnoreGitIgnore =>
          \A q \in listed : Join(q, gitignoreName) \in IgnoreFilePaths
                               => Join(q, gitignoreName) \in readLog
    /\ ~IgnoreIgnoreFile =>
          \A q \in listed : Join(q, ignoreName) \in IgnoreFilePaths
                               => Join(q, ignoreName) \in readLog

\* C8 witness: a walk with IgnoreGitIgnore set and IgnoreIgnoreFile not set
\* has listed directories that hold both files and has read an .ignore
C8_Witness ==
    /\ IgnoreGitIgnore
    /\ ~IgnoreIgnoreFile
    /\ pc = "done"
    /\ {pR, pG} \subseteq listed
    /\ {rIgn, gIgn} \subseteq readLog

\* the filters of the file loop other than the two extension lists exclude
\* the file of a decision
ExcludedOtherwise(d) ==
    \/ d.verdict
    \/ ~IncludeHidden /\ IsHidden(BaseName(d.path))
    \/ LocationExcluded(LocationExcludePattern, d.path)

InList(list, x) == \E i \in 1..Len(list) : list[i] = x

\* C9: with a non-empty AllowListExtensions a file is sent only if its
\* GetExtension is an entry of the list, and it is sent if no other filter
\* excludes it; with an empty list no file is excluded because of its
\* extension.
C9_AllowList ==
    /\ AllowListExtensions # <<>> =>
          \A k \in 1..Len(sent) :
              InList(AllowListExtensions, GetExtension(sent[k].Filename))
    /\ \A d \in FileDecisions :
        LET ext == GetExtension(BaseName(d.path))
            allowed == AllowListExtensions = <<>> \/ InList(AllowListExtensions, ext)
        IN d.err = Nil =>
             /\ AllowListExtensions # <<>> /\ Emitted(d)
                   => InList(AllowListExtensions, ext)
             /\ Emitted(d) = (/\ allowed
                              /\ ~ExcludedOtherwise(d)
                              /\ ~InList(ExcludeListExtensions, ext))

\* C9 witness: with the allow-list {txt}, a.txt was sent and B.MD, which no
\* other filter excludes, was not
C9_Witness ==
    /\ AllowListExtensions = <<txt>>
    /\ ExcludeListExtensions = <<>>
    /\ \E k \in 1..Len(sent) : sent[k].Filename = aTxt
    /\ \E d \in FileDecisions :
          /\ BaseName(d.path) = bMd
          /\ d.err = Nil
          /\ ~ExcludedOtherwise(d)
          /\ ~Emitted(d)

\* C10: a file whose extension is an entry of ExcludeListExtensions is never
\* sent, and a file whose extension is not an entry is not excluded by the
\* list.
C10_DenyList ==
    /\ \A k \in 1..Len(sent) :
          ~InList(ExcludeListExtensions, GetExtension(sent[k].Filename))
    /\ \A d \in FileDecisions :
        LET ext == GetExtension(BaseName(d.path))
            allowed == AllowListExtensions = <<>> \/ InList(AllowListExtensions, ext)
        IN d.err = Nil =>
             /\ InList(ExcludeListExtensions, ext) => ~Emitted(d)
             /\ ~InList(ExcludeListExtensions, ext)
                   => Emitted(d) = (allowed /\ ~ExcludedOtherwise(d))

\* C10 witness: with the deny-list {md, go, txt}, a.txt, which no other
\* filter excludes, was not sent and t.d.ts was
C10_Witness ==
    /\ ExcludeListExtensions = <<md, go, txt>>
    /\ AllowListExtensions = <<>>
    /\ \E k \in 1..Len(sent) : sent[k].Filename = tDts
    /\ \E d \in FileDecisions :
          /\ BaseName(d.path) = aTxt
          /\ d.err = Nil
          /\ ~ExcludedOtherwise(d)
          /\ ~Emitted(d)

\* the extension the name has by the rule: the lowercased name if it has no
\* dot or its only dot is its first character, otherwise what follows the
\* last dot of the lowercased name
ExpectedExtension(name) ==
    LET lower == ToLower(name)
        dots == { i \in 1..Len(lower) : lower[i] = "." }
    IN IF dots = {} \/ dots = {1} THEN lower
       ELSE LET last == CHOOSE i \in dots : \A j \in dots : j <= i
            IN SubSeq(lower, last + 1, Len(lower))

\* C11: for every name GetExtension returns without failing, and returns
\* the lowercased name if the name has no dot or its only dot is its first
\* character, and otherwise what follows the last dot, lowercased.
C11_GetExtensionTotal ==
    extPc \in {"extracted", "done"} =>
        /\ extResult # Panic
        /\ extResult = ExpectedExtension(extName)

\* the allow-list check with one extraction: the extension is an entry
AllowListedOnce(allow, name) == InList(allow, GetExtension(name))

TrimSeparator(entry) ==
    IF Len(entry) > 0 /\ entry[Len(entry)] = "/"
    THEN SubSeq(entry, 1, Len(entry) - 1)
    ELSE entry

\* the entry is a segment-aligned suffix of the path: it is not empty, it
\* ends the path, and it is the whole path or follows a separator
SegmentAlignedSuffix(path, entry) ==
    LET e == TrimSeparator(entry) IN
    /\ e # <<>>
    /\ e[1] # "/"
    /\ HasSuffix(path, e)
    /\ Len(e) = Len(path) \/ path[Len(path) - Len(e)] = "/"

\* a filter of the directory loop other than the exclude list excludes the
\* directory of a decision
DirExcludedOtherwise(d) ==
    \/ d.verdict
    \/ ~IncludeHidden /\ IsHidden(BaseName(d.path))

\* C13: a directory is excluded by the directory-exclude list exactly when
\* an entry of the list is a segment-aligned suffix of the directory's path:
\* such a directory is not walked, and a directory that no entry is a
\* segment-aligned suffix of, and that no other filter excludes, is walked.
C13_SegmentAlignedExclude ==
    \A d \in DecisionSet :
        LET hit == \E i \in 1..Len(PathExclude) :
                      SegmentAlignedSuffix(d.path, PathExclude[i])
        IN (d.isDir /\ d.err = Nil) =>
              /\ hit => ~d.emit
              /\ (~hit /\ ~DirExcludedOtherwise(d)) => d.emit

\* the directory above a path
Parent(p) == SubSeq(p, 1, LastIndex(p, "/"))

\* the pattern sets of the ignore files from the walk root down to dir
LineageSets(dir, kind) == RootToLeaf(Holders(dir, kind), kind)

\* the directory at the path passes the filters of the directory loop of
\* the directory above it
DirPasses(p) ==
    DirOutcome(Parent(p), BaseName(p), LineageSets(Parent(p), "git"),
               LineageSets(Parent(p), "ign")).emit

\* every directory from below the walk root down to p passes the filters of
\* the directory loop, and every directory above p can be opened and listed
Reached(p) ==
    /\ \A q \in Lineage(p) \ {directory} : DirPasses(q)
    /\ \A q \in Lineage(p) \ {p} : OpenError(q) = Nil

\* the directories that os.Open fails on in a step
FailedInStep(before, after) == (after \ before) \cap fsys.openFail

\* C14: without an error handler the first directory that cannot be opened
\* or listed ends the walk: its error is what every frame and Start return,
\* no directory is opened or listed and no entry is filtered or sent after
\* it, the channel is closed, and the records sent before it are all
\* received, in order, before the consumer sees the channel closed.
C14_FirstFailureAborts ==
    [][ /\ (errorHandler = "none" /\ FailedInStep(opened, opened') # {})
              => err' = ErrOpen
        /\ (errorHandler = "none" /\ err \in {ErrOpen, ErrNotDir}) =>
              /\ err' = err
              /\ sent' = sent
              /\ opened' = opened
              /\ listed' = listed
              /\ decided' = decided
              /\ pc' = "done" => startResult' = err /\ closeCount' = 1
              /\ received' \o fileListQueue' = sent'
              /\ consumerDone' => received' = sent' /\ closeCount' = 1 ]_vars

\* C14 witness: without a handler the directory r/d/e could not be opened
\* after records were queued; Start has returned its error, a sibling of an
\* ancestor was never opened, and the consumer has received every record
C14_Witness ==
    /\ errorHandler = "none"
    /\ fsys.openFail = {pE}
    /\ queueCap > 0
    /\ pc = "done"
    /\ startResult = ErrOpen
    /\ pE \in opened
    /\ pX \notin opened
    /\ Len(sent) > 1
    /\ consumerDone
    /\ received = sent

\* C15: with an error handler set, each directory that cannot be opened or
\* listed makes one call of the handler with its error; if the handler
\* returns true the directory is skipped and the walk goes on to every other
\* directory, and Start returns nil; if it returns false the walk ends and
\* Start returns the error.
C15_HandlerDecides ==
    [][ /\ (errorHandler # "none" /\ FailedInStep(opened, opened') # {}) =>
              /\ handlerCalls' = Append(handlerCalls, ErrOpen)
              /\ listed' = listed
              /\ errorHandler = "continue" => err' = Nil
              /\ errorHandler = "stop" => err' = ErrOpen
        /\ FailedInStep(opened, opened') = {} => handlerCalls' = handlerCalls
        /\ errorHandler # "none" =>
              Len(handlerCalls') = Cardinality(opened' \cap fsys.openFail)
        /\ (errorHandler = "stop" /\ handlerCalls # <<>>) =>
              /\ opened' = opened
              /\ sent' = sent
              /\ pc' = "done" => startResult' = ErrOpen
        /\ (errorHandler = "continue" /\ pc' = "done" /\ directory \in TreeDirs
               /\ terminateCalls = 0 /\ fsys.hiddenFail = {}) =>
              /\ startResult' = Nil
              /\ opened' = { q \in TreeDirs : Reached(q) }
              /\ listed' = opened' \ fsys.openFail ]_vars

\* C15 witness: the handler returned true for r/d/e, whose subdirectories
\* were then never opened, and the walk went on to list r/x
C15_Witness ==
    /\ errorHandler = "continue"
    /\ fsys.openFail = {pE}
    /\ pc = "done"
    /\ startResult = Nil
    /\ handlerCalls = <<ErrOpen>>
    /\ pF \notin opened
    /\ pX \in listed
    /\ \E k \in 1..Len(sent) : sent[k].Location = Join(pX, aTxt)

ErrorsReturned ==
    SelectSeq(returned, LAMBDA i : subWalks[i].result # Nil)

\* C17: the ParallelWalker's Start returns only when every sub-walk has
\* returned; the channel is closed exactly once, when every sub-walk has
\* returned, and no record is sent once it is closed.
C17_ClosedAfterLastSubWalk ==
    [][ /\ closeCount' <= 1
        /\ closeCount >= 1 => sent' = sent /\ subWalks' = subWalks
        /\ closeCount' > closeCount =>
              \A i \in DOMAIN subWalks : subWalks[i].pc = "joined"
        /\ pwPc' = "done" =>
              /\ closeCount' = 1
              /\ Len(returned') = Len(directories)
              /\ \A i \in DOMAIN subWalks' :
                    /\ subWalks'[i].pc = "joined"
                    /\ subWalks'[i].result \in {Nil, ErrOpen, ErrNotDir,
                                                ErrTerminateWalk} ]_vars

\* C17 witness: Start has returned after three sub-walks that ended in the
\* three ways (nil, an error, termination), and a record was sent
C17_Witness ==
    /\ pwPc = "done"
    /\ Len(directories) = 3
    /\ closeCount = 1
    /\ Len(sent) > 0
    /\ { subWalks[i].result : i \in DOMAIN subWalks }
          = {Nil, ErrOpen, ErrTerminateWalk}

\* C18: once a sub-walk has handed in an error, Terminate was called on
\* every sub-walk; Start returns the error of the sub-walk that was the
\* first to hand one in, which is the error of a directory and neither nil
\* nor ErrTerminateWalk.
C18_FirstErrorSignalsPeers ==
    /\ ErrorsReturned # <<>> =>
          /\ \A j \in DOMAIN subWalks : subWalks[j].terminateWalking
          /\ firstError = subWalks[ErrorsReturned[1]].result
          /\ firstError \in {ErrOpen, ErrNotDir}
    /\ ErrorsReturned = <<>> =>
          /\ firstError = "none"
          /\ \A j \in DOMAIN subWalks : ~subWalks[j].terminateWalking
    /\ pwPc = "done" =>
          startResult = IF ErrorsReturned = <<>> THEN Nil
                        ELSE subWalks[ErrorsReturned[1]].result

\* C18 witness: the sub-walk of a regular file was the first to return an
\* error, its peer then returned ErrTerminateWalk, and Start returned the
\* error of the first
C18_Witness ==
    /\ pwPc = "done"
    /\ directories = <<pQ, pE>>
    /\ returned = <<1, 2>>
    /\ subWalks[1].result = ErrNotDir
    /\ subWalks[2].result = ErrTerminateWalk
    /\ Len(sent) > 0
    /\ startResult = ErrNotDir

\* C19: a ParallelWalker over no root sends nothing and never calls the
\* handler; its Start has nothing to wait for, closes the empty channel and
\* returns nil.
C19_EmptyRootList ==
    directories = <<>> =>
        /\ sent = <<>>
        /\ fileListQueue = <<>>
        /\ handlerCalls = <<>>
        /\ opened = {}
        /\ subWalks = <<>>
        /\ pwPc = "wait" => ENABLED PwClose
        /\ pwPc \in {"closed", "done"} => closeCount = 1
        /\ pwPc = "done" => startResult = Nil

\* C19 witness: a ParallelWalker with a handler and no root has returned
\* from Start and the consumer has seen the channel closed
C19_Witness ==
    /\ directories = <<>>
    /\ errorHandler = "continue"
    /\ pwPc = "done"
    /\ closeCount = 1
    /\ consumerDone
    /\ received = <<>>

\* the file at the path passes the filters of the file loop of its
\* directory, with the pattern sets of the directory's lineage
FilePasses(p) ==
    FileOutcome(Parent(p), BaseName(p), LineageSets(Parent(p), "git"),
                LineageSets(Parent(p), "ign")).emit

\* the files below the walk root that pass the file filters and whose
\* directories, from below the root down, all pass the directory filters
ExpectedFiles ==
    { p \in AllFilePaths :
        /\ directory \in Lineage(Parent(p))
        /\ Reached(Parent(p))
        /\ FilePasses(p) }

\* C20: when Start has returned nil from a walk in which no directory
\* failed and the consumer has seen the channel closed, the records sent,
\* which are the records received, are those of the files that pass the file
\* filters in a directory whose ancestors below the root all pass the
\* directory filters: each of them once, none other, each with its full path
\* as Location and its base name as Filename.
C20_EveryPassingFileOnce ==
    (pc = "done" /\ consumerDone /\ startResult = Nil /\ handlerCalls = <<>>
       /\ opened \cap fsys.openFail = {}) =>
        LET expected == ExpectedFiles IN
        /\ received = sent
        /\ { sent[k].Location : k \in 1..Len(sent) } = expected
        /\ \A k \in 1..Len(sent) : sent[k].Filename = BaseName(sent[k].Location)
        /\ \A j, k \in 1..Len(sent) :
              sent[j].Location = sent[k].Location => j = k
        /\ Len(sent) = Cardinality(expected)

\* C20 witness: a walk that includes hidden entries has returned nil after
\* sending the files of the root, of a hidden directory and of a directory
\* four levels down, while an extension list kept another file out
C20_Witness ==
    /\ pc = "done"
    /\ consumerDone
    /\ startResult = Nil
    /\ IncludeHidden
    /\ Len(sent) >= 8
    /\ Cardinality(ExpectedFiles) = Len(sent)
    /\ \E k \in 1..Len(sent) : sent[k].Location = Join(pH, aTxt)
    /\ \E k \in 1..Len(sent) : sent[k].Location = Join(pG, aTxt)
    /\ Join(pR, bMd) \notin ExpectedFiles

\* a filter other than the hidden test excludes the entry of a decision
OtherFilterExcludes(d) ==
    IF d.isDir
    THEN d.verdict \/ PathExcluded(PathExclude, BaseName(d.path))
    ELSE \/ d.verdict
         \/ /\ AllowListExtensions # <<>>
            /\ ~AllowListed(AllowListExtensions, BaseName(d.path))
         \/ DenyListed(ExcludeListExtensions, BaseName(d.path))
         \/ LocationExcluded(LocationExcludePattern, d.path)

\* C23: with IncludeHidden false no hidden file is sent and no hidden
\* directory is entered, whatever the ignore files say about it (a negating
\* pattern does not bring it back), so no record lies below a hidden
\* directory; with IncludeHidden true a hidden entry is excluded only if
\* another filter excludes it.
C23_HiddenNeverReincluded ==
    /\ ~IncludeHidden =>
          /\ \A k \in 1..Len(sent) :
                /\ ~IsHidden(sent[k].Filename)
                /\ \A q \in Lineage(Parent(sent[k].Location)) \ {directory} :
                      ~IsHidden(BaseName(q))
          /\ \A q \in (opened \cup listed) \ {directory} : ~IsHidden(BaseName(q))
          /\ \A i \in 2..Len(stack) : ~IsHidden(BaseName(stack[i].directory))
          /\ \A d \in DecisionSet : IsHidden(BaseName(d.path)) => ~d.emit
    /\ IncludeHidden =>
          \A d \in DecisionSet :
              (IsHidden(BaseName(d.path)) /\ d.err = Nil)
                 => d.emit = ~OtherFilterExcludes(d)

\* C23 witness: with IncludeHidden false the hidden file .env, which the
\* last matching pattern of the ignore files re-includes, is not sent, after
\* the file next to it was
C23_Witness ==
    /\ ~IncludeHidden
    /\ \E k \in 1..Len(sent) : sent[k].Location = Join(pX, aTxt)
    /\ \E d \in FileDecisions :
          /\ d.path = Join(pX, dotEnv)
          /\ LastMatch(d.ignores, d.path) # 0
          /\ ~d.verdict
          /\ ~OtherFilterExcludes(d)
          /\ ~d.emit
          /\ ~Emitted(d)

\* C24: no record that is sent has a Location that contains an entry of
\* LocationExcludePattern as a substring, with the case of the entry, however
\* deep the file lies and wherever in the path the entry occurs; a file
\* whose path contains an entry is not sent.
C24_LocationExclude ==
    /\ \A k \in 1..Len(sent) : \A i \in 1..Len(LocationExcludePattern) :
          ~Contains(sent[k].Location, LocationExcludePattern[i])
    /\ \A d \in FileDecisions :
          (\E i \in 1..Len(LocationExcludePattern) :
              Contains(d.path, LocationExcludePattern[i])) => ~d.emit

\* C24 witness: with the entries "b.m" and "/e/" the walk has ended after it
\* sent B.MD, which holds the first entry in another case only, and walked
\* the directories below r/d/e without sending any of their files
C24_Witness ==
    /\ LocationExcludePattern = << <<"b", ".", "m">>, <<"/", "e", "/">> >>
    /\ pc = "done"
    /\ startResult = Nil
    /\ \E k \in 1..Len(sent) : sent[k].Filename = bMd
    /\ {pF, pG} \subseteq listed
    /\ \A k \in 1..Len(sent) : ~Contains(sent[k].Location, <<"/", "e", "/">>)

\* the directory of the k-th record that was sent
SentDir(k) == Parent(sent[k].Location)

\* the directory q is the directory d or lies below it
Within(q, d) ==
    /\ Len(q) >= Len(d)
    /\ SubSeq(q, 1, Len(d)) = d
    /\ Len(q) = Len(d) \/ q[Len(d) + 1] = "/"

\* C30: the records are sent files first and then depth first.  Every
\* step that sends a record sends one that is not a file directly in a
\* directory of which an earlier record lies below a subdirectory, and one
\* that does not return to the subtree of a directory that the records had
\* left: no record of a directory comes after a record below one of its
\* subdirectories, and the records of the subtree of one subdirectory are
\* all sent before any record of the next.
C30_FilesThenDepthFirst ==
    [][Len(sent') > Len(sent) =>
          LET n == Len(sent')
              dirs == [k \in 1..n |-> Parent(sent'[k].Location)]
          IN /\ \A j \in 1..(n - 1) :
                   ~(dirs[n] # dirs[j] /\ Within(dirs[j], dirs[n]))
             /\ \A d \in TreeDirs : \A i \in 1..(n - 1) :
                   (Within(dirs[i], d) /\ Within(dirs[n], d))
                      => \A j \in i..n : Within(dirs[j], d)]_vars

\* C30 witness: a walk that lists in reverse order has returned after it
\* sent the files of the root, of both directories below r/d/e and of r/x
C30_Witness ==
    /\ pc = "close"
    /\ err = Nil
    /\ fsys.order = "rev"
    /\ Len(sent) >= 6
    /\ \E i, j, k \in 1..Len(sent) :
          /\ SentDir(i) = pF
          /\ SentDir(j) = pG
          /\ SentDir(k) = pX

\* the directory that the walk may still open and list once Terminate has
\* returned: the one whose entry check it had passed and not yet opened
OpenableAtTerminate ==
    IF atTerminate.pc = "open" THEN {atTerminate.dir} ELSE {}

\* C27: once a call of Terminate has returned the walk opens and lists no
\* directory other than the one whose entry check it had already passed,
\* and the records it still sends are files of that one directory: the flag
\* is read at the entry of a directory and nowhere else.
C27_OnlyTheCurrentDirectory ==
    [][ terminateWalking =>
          /\ (opened' \ opened) \subseteq OpenableAtTerminate
          /\ (listed' \ listed) \subseteq OpenableAtTerminate
          /\ sent' # sent =>
                /\ atTerminate.pc \in {"open", "loop"}
                /\ Parent(sent'[Len(sent')].Location) = atTerminate.dir ]_vars

\* C27 witness: Terminate returned between the entry check of a directory
\* and its os.Open; the walk then opened and listed that directory, sent a
\* file of it and returned ErrTerminateWalk from the next entry check
C27_Witness ==
    /\ atTerminate.pc = "open"
    /\ atTerminate.dir \in opened \cap listed
    /\ \E k \in 1..Len(sent) : SentDir(k) = atTerminate.dir
    /\ pc = "done"
    /\ startResult = ErrTerminateWalk

\* C27 as stated: once a call of Terminate has returned no further directory
\* is opened or listed, and the records still sent are files of the
\* directory whose loop over files was running
C27_NoFurtherDirectory ==
    [][ terminateWalking =>
          /\ opened' = opened
          /\ listed' = listed
          /\ sent' # sent =>
                /\ atTerminate.pc = "loop"
                /\ Parent(sent'[Len(sent')].Location) = atTerminate.dir ]_vars

\* C22: over any sequence of calls of Start and Terminate on one walker,
\* a second Start after the first has returned included, close is never run
\* on the channel once it is closed and no record is sent on the closed
\* channel.
C22_ClosedOnceNothingSentAfter ==
    /\ closeCount <= 1
    /\ panicked # PanicClose
    /\ panicked # PanicSend

\* C21: with a consumer that keeps receiving, Start returns and the channel
\* is closed, whatever its capacity, and the loop of the consumer ends.
C21_StartReturnsQueueCloses ==
    <>(pc = "done" /\ closeCount = 1 /\ consumerDone)

\* C21 witness: Start has returned nil and the consumer has seen the
\* channel closed after a walk that sent more records than the buffered
\* channel holds
C21_Witness ==
    /\ pc = "done"
    /\ startResult = Nil
    /\ closeCount = 1
    /\ consumerDone
    /\ queueCap > 0
    /\ Len(sent) > queueCap
    /\ received = sent

\* C28: after Terminate has set the flag during a walk, Start returns and
\* the channel is closed, whether or not the consumer receives any further
\* record.
C28_TerminateReleasesWalker ==
    (terminateWalking /\ pc = "walk") ~> (pc = "done" /\ closeCount = 1)

\* the goroutine of Start is at a statement between a Lock and its Unlock
AtFlagAccess ==
    \/ pc \in {"start", "end"}
    \/ pc = "walk" /\ Top.pc = "check"

\* C29: the goroutine of Start holds the lock only between a Lock and the
\* Unlock that follows its read or write of a flag, never while it opens or
\* lists a directory, runs the loops, is inside a recursive call or sends;
\* so every call of Terminate and of Walking that waits for the lock gets
\* it and returns, even when the walk is blocked on a full channel.
C29_LockGuardsFlagsOnly ==
    /\ [](walkMutex = "walker" => AtFlagAccess)
    /\ (tpc = "lock") ~> (tpc = "idle")
    /\ (wpc = "lock") ~> (wpc = "idle")

\* C29 witness: Walking has returned true and Terminate holds the lock
\* while the walk is blocked in the loop over files on a full channel
C29_Witness ==
    /\ pc = "walk"
    /\ Top.pc = "loop"
    /\ ~FilesDone(Top)
    /\ queueCap > 0
    /\ ~CanSend(fileListQueue, queueCap)
    /\ FileOutcome(Top.directory, Top.files[Top.fi],
                   View(arrays, Top.gitignores), View(arrays, Top.ignores)).emit
    /\ walkMutex = "terminator"
    /\ walkingResult = "true"

\* the ancestor at depth n holds a directory .git or .hg
Marked(n) == repo.marks[n] \in {"git", "hg"}

\* the proper ancestors of the working directory that hold a marker
MarkedAbove == { n \in 0..(repo.depth - 1) : Marked(n) }

\* C25: FindRepositoryRoot returns the nearest proper ancestor of the
\* working directory that holds a directory .git or .hg when the working
\* directory holds neither and there is such an ancestor, and the start
\* argument in every other case (the working directory holds a marker, no
\* ancestor does, os.Getwd fails).
C25_NearestMarkedAncestor ==
    rootCall.pc = "done" =>
        rootCall.result =
            IF repo.getwdErr \/ Marked(repo.depth) \/ MarkedAbove = {}
            THEN repo.start
            ELSE Dir(CHOOSE n \in MarkedAbove : \A k \in MarkedAbove : k <= n)

\* the values of the path lines of a text, in the order of the lines
RECURSIVE PathValues(_)
PathValues(doc) ==
    IF doc = <<>> THEN <<>>
    ELSE (IF Head(doc).key = "path" THEN << Head(doc).value >> ELSE <<>>)
            \o PathValues(Tail(doc))

\* C26: the submodule parser returns the values of the path lines of a
\* .gitmodules text, each trimmed of whitespace, all of them and no other, in
\* the order of the lines; the lines with other keys add nothing and no
\* error is reported.
C26_PathValuesInOrder ==
    gmCall.pc = "done" =>
        /\ gmCall.output = PathValues(gmInput)
        /\ gmCall.err = Nil

\* C26 witness: a text with two path lines around lines with other keys was
\* parsed into the two values, the second without the whitespace after it
C26_Witness ==
    /\ gmCall.pc = "done"
    /\ Len(gmInput) = MaxLines
    /\ gmCall.output = << <<"a">>, <<"b", "/", "c">> >>
    /\ \E i \in 1..Len(gmInput) : gmInput[i].key \in {"url", "branch", "paths"}

\* C31: a call of Walking that has returned reports whether Start is
\* running the walk: false when Start has not been called by the time it
\* returns, true when the whole call lies between the beginning of the walk
\* and the moment Start, having closed the channel, clears the flag just
\* before it returns (so also after the consumer has seen the channel
\* closed), and false when it was made after Start returned.
C31_WalkingUntilStartReturns ==
    (wpc = "idle" /\ walkingResult # "none") =>
        /\ StartPhase = "notStarted" => walkingResult = "false"
        /\ (walkingAt \in {"walking", "closed", "seenClosed"} /\ pc # "done")
              => walkingResult = "true"
        /\ walkingAt = "returned" => walkingResult = "false"

\* C31 witness: a call of Walking made after the consumer had seen the
\* channel closed has returned true, Start being about to clear the flag
C31_Witness ==
    /\ wpc = "idle"
    /\ walkingAt = "seenClosed"
    /\ walkingResult = "true"
    /\ consumerDone
    /\ closeCount = 1
    /\ pc = "endLock"

\* C31 as stated: a call of Walking that has returned reports whether a
\* walk is in progress: false when Start has not been called by the time it
\* returns, true when the whole call lies between the beginning of the walk
\* and the closing of the channel, and false when it was made after the
\* channel was closed, in particular after the consumer has seen the channel
\* closed.
C31_WalkingUntilQueueClosed ==
    (wpc = "idle" /\ walkingResult # "none") =>
        /\ StartPhase = "notStarted" => walkingResult = "false"
        /\ (walkingAt = "walking" /\ StartPhase = "walking")
              => walkingResult = "true"
        /\ walkingAt \in {"closed", "seenClosed", "returned"}
              => walkingResult = "false"

\* the path of the directory contains an entry of LocationExcludePattern
ExcludedDir(q) == LocationExcluded(LocationExcludePattern, q)

\* C32: a directory below the root whose full path contains an entry of
\* LocationExcludePattern is not descended into: os.Open is never called on
\* it, so it is never listed, none of its ignore files is read, and when
\* Start returns the error of a directory that could not be opened, that
\* directory is not one of them.
C32_ExcludedDirectoryNotDescended ==
    /\ \A q \in (opened \cup listed) \ {directory} : ~ExcludedDir(q)
    /\ \A f \in readLog : Parent(f) # directory => ~ExcludedDir(Parent(f))
    /\ (pc = "done" /\ startResult = ErrOpen) =>
          \A q \in (opened \cap fsys.openFail) \ {directory} : ~ExcludedDir(q)

====
